---- MODULE Spec2Model ----
(***************************************************************************)
(* Runtime lifecycle engine of the Prometheus engine (engine-core):        *)
(* EntityManager, SceneManager / Scene, AssetManager, Entity / Component,  *)
(* ViewportManager and Engine as state machines. Every part has its own    *)
(* specification over the shared variables:                                *)
(*   SpecEntity    EntityManager  (managers/EntityManager.ts, lines 7-152) *)
(*   SpecScene     SceneManager   (managers/EntityManager.ts, 160-273)     *)
(*   SpecAsset     AssetManager   (managers/AssetManager.ts)               *)
(*   SpecComponent Entity and its components (entity/Entity.ts)            *)
(*   SpecViewport  ViewportManager (unnamed/part_005)                      *)
(*   SpecCoords    ViewportManager's coordinate mapping                    *)
(*   SpecEngine    Engine: construction, init, destroy (Engine.ts)         *)
(*   SpecFrame     Engine with its scenes and its frame callback           *)
(*   SpecUpdate    Entity.update over enabled components                   *)
(*   SpecRemove    EntityManager.removeEntity with Entity.destroy          *)
(*   SpecAdd       EntityManager.addEntity with any entity instance        *)
(*   SpecLive      EntityManager with addEntity and its queues             *)
(*   SpecResize    Engine with its scenes at the window's resize events    *)
(*   SpecAssetRace AssetManager with loads in flight                       *)
(*   SpecSceneInit SceneManager with scenes whose init is asynchronous     *)
(***************************************************************************)
EXTENDS Integers, Sequences, FiniteSets, TLC

\* ------------------------------------------------------------------ bounds
\* Entity instances the program constructs (new Entity(...)).
MaxEntities == 3
\* Last value of the millisecond clock Date.now() (it starts at 0).
MaxClock == 1
\* Number of distinct values Math.floor(Math.random() * 1000) takes here.
MaxRandom == 2
\* Scene instances the program constructs (new Scene(name)).
MaxScenes == 2
\* Cap on the init() / destroy() calls counted per scene instance.
MaxSceneCalls == 2
\* loadBundle calls made.
MaxCalls == 2
\* Component instances the program constructs.
MaxComponents == 2
\* Cap on the destroy() calls counted on an entity that addEntity is given.
MaxDestroys == 1

\* null / undefined: instances are numbered from 1.
None == 0

EntityRefs == 1..MaxEntities
\* An entity id `entity_${Date.now()}_${random}` is the pair <<now, random>>.
IdSpace == (0..MaxClock) \X (0..(MaxRandom - 1))
NoId == <<-1, -1>>

SceneRefs == 1..MaxScenes
SceneNames == {"menu", "game"}

BundleNames == {"x", "y"}
AssetNames == {"a1", "a2"}
CallRefs == 1..MaxCalls

\* The two Entity instances that hold components.
Hosts == {1, 2}
ComponentRefs == 1..MaxComponents
\* componentType keys (SpriteComponent.TYPE, SpineComponent.TYPE).
TypeKeys == {"sprite", "spine"}

\* Defaults of the ViewportConfig options.
DefaultDesignWidth == 1920
DefaultDesignHeight == 1080
DefaultTabletThreshold == 768
DefaultDesktopThreshold == 1024
\* Number of bits of the significand of the floating-point numbers (the
\* program's numbers have 53).
Precision == 11
\* Coordinates passed to toScreenCoords and toDesignCoords.
Points == {0, 1, 7}
\* Widths and heights, in pixels, of the window and of resize calls.
Sizes == {375, 768, 1024, 1920}
\* The ViewportConfig objects passed to the constructor; 0 stands for an
\* option that is left out.
Configs ==
  [designWidth : {0, 1024}, designHeight : {0, 768},
   maintainAspectRatio : BOOLEAN,
   tabletThreshold : {0, 376}, desktopThreshold : {0}]

VARIABLES
  \* ---- environment of the EntityManager
  now,              \* Date.now()
  nextEntity,       \* number of the next Entity instance constructed
  entId,            \* Entity.id of every constructed instance
  entActive,        \* Entity.active
  entDestroyed,     \* number of Entity.destroy() calls on the instance
  entUpdates,       \* number of Entity.update() calls in the running update pass
  \* ---- EntityManager
  entities,         \* Map<string, Entity>, as the instances in insertion order
  entitiesToAdd,    \* Entity[]
  entitiesToRemove, \* string[]
  emChildren,       \* entity containers that are children of the manager container
  emPc,             \* "idle", or "updating" inside the loop of update()
  emCursor,         \* position of the Map iterator of update()'s loop
  emRequested,      \* instances whose removal was asked for (by id)
  \* ---- Scene instances
  nextScene,        \* number of the next Scene instance constructed
  scName,           \* Scene.name
  scActive,         \* Scene.active
  scInit,           \* number of Scene.init() calls
  scDestroyed,      \* number of Scene.destroy() calls
  \* ---- SceneManager
  scenes,           \* Map<string, Scene>
  activeScene,      \* Scene | null
  smChildren,       \* scene containers that are children of the manager container
  smLast,           \* the last SceneManager call, what it returned, the hooks it called
  scPending,        \* per scene, the init() calls whose promise is not settled
  \* ---- AssetManager
  bundles,          \* Map<string, AssetBundleDefinition>
  loadedBundles,    \* Map<string, boolean>
  loadedAssets,     \* Map<string, unknown> (the names cached)
  pixiCache,        \* names Assets.get() finds in the rendering surface's cache
  calls,            \* the loadBundle calls made and the state of their promises
  nextCall,         \* number of the next loadBundle call
  loaderCalls,      \* number of Assets.loadBundle invocations per bundle name
  loadMarks,        \* times a bundle went from not loaded to loaded since its
                    \* last registerBundle / unloadBundle call
  stale,            \* the loadBundle calls that were waiting for the loader
                    \* when unloadBundle unloaded their bundle
  loadedDef,        \* per bundle name, the assets the loader loaded last
                    \* (<<>>: none, or released since)
  \* ---- Entity and its components
  components,       \* Entity.components: Map<string, Component>, per entity, as
                    \* the <<key, instance>> entries in insertion order
  compEntity,       \* Component.entity, the back-reference (None: null/undefined)
  enLast,           \* the last Entity call, what it returned, the hooks it called
  \* ---- window and ViewportManager
  window,           \* window.innerWidth and window.innerHeight
  viewport,         \* the ViewportManager's fields (constructed: it exists)
  vmLast,           \* the last resize call, the values held before it and the
                    \* notifications it raised
  vmCoords,         \* the last toScreenCoords / toDesignCoords call since the
                    \* viewport was constructed or resized, and what it returned
  \* ---- Engine, the ticker of its rendering surface, the window's listeners
  engine,           \* the Engine's fields (phase: how far init has come)
  ticker,           \* times Engine.update is registered on app.ticker
  listeners,        \* the window's 'resize' listeners, in registration order,
                    \* each named by the object whose handleResize it calls
  egLast,           \* the last destroy call or frame: the calls it made, in
                    \* order, and the error it ended with
  \* ---- Entity.update and Entity.destroy
  compEnabled,      \* Component.enabled
  enCalls           \* the Entity.update, addEntity or removeEntity call just
                    \* made: what it returned and the calls it made, in order

componentVars == <<components, compEntity, enLast>>
viewportVars == <<window, viewport, vmLast>>
coordVars == <<vmCoords>>
engineVars == <<engine, ticker, listeners, egLast>>
lifeVars == <<compEnabled, enCalls>>
entityVars == <<now, nextEntity, entId, entActive, entDestroyed, entUpdates,
                entities, entitiesToAdd, entitiesToRemove, emChildren, emPc,
                emCursor, emRequested>>
sceneVars == <<nextScene, scName, scActive, scInit, scDestroyed, scenes,
               activeScene, smChildren, smLast, scPending>>
raceVars == <<stale, loadedDef>>
assetVars == <<bundles, loadedBundles, loadedAssets, pixiCache, calls, nextCall,
               loaderCalls, loadMarks, stale, loadedDef>>
vars == <<entityVars, sceneVars, assetVars, componentVars, viewportVars,
         coordVars, engineVars, lifeVars>>

Range(s) == {s[i] : i \in 1..Len(s)}
RemoveAt(s, i) == SubSeq(s, 1, i - 1) \o SubSeq(s, i + 1, Len(s))

\* ============================================================ EntityManager

InitEntity ==
  /\ now = 0
  /\ nextEntity = 1
  /\ entId = [e \in EntityRefs |-> NoId]
  /\ entActive = [e \in EntityRefs |-> TRUE]
  /\ entDestroyed = [e \in EntityRefs |-> 0]
  /\ entUpdates = [e \in EntityRefs |-> 0]
  /\ entities = <<>>
  /\ entitiesToAdd = <<>>
  /\ entitiesToRemove = <<>>
  /\ emChildren = {}
  /\ emPc = "idle"
  /\ emCursor = 0
  /\ emRequested = {}

\* The part of the manager that addEntity / removeEntity read and write.
EMState == [ents |-> entities, destroyed |-> entDestroyed,
            children |-> emChildren, cursor |-> emCursor]

\* this.entities.has(id) / this.entities.get(id), ids being those of `ids`.
EntitiesHas(ids, ents, id) == \E i \in 1..Len(ents) : ids[ents[i]] = id
EntitiesPos(ids, ents, id) == CHOOSE i \in 1..Len(ents) : ids[ents[i]] = id

\* Entity.destroy(): counted per instance.
EntityDestroy(destroyed, e) == [destroyed EXCEPT ![e] = @ + 1]

\* EntityManager.removeEntity on the state m. A Map iterator that has passed
\* the deleted entry stays on the entry it was on.
DoRemoveEntity(ids, m, id) ==
  IF ~EntitiesHas(ids, m.ents, id) THEN m
  ELSE LET i == EntitiesPos(ids, m.ents, id)
           e == m.ents[i]
       IN [ents |-> RemoveAt(m.ents, i),
           destroyed |-> EntityDestroy(m.destroyed, e),
           children |-> m.children \ {e},
           cursor |-> IF i < m.cursor THEN m.cursor - 1 ELSE m.cursor]

\* addEntity that leaves an entity tracked under the same id in place.
DoAddEntityKeepsOld(ids, m, e) ==
  [m EXCEPT !.ents = Append(m.ents, e),
            !.children = m.children \cup {e}]

\* EntityManager.addEntity on the state m.
DoAddEntity(ids, m, e) ==
  LET m1 == IF EntitiesHas(ids, m.ents, ids[e])
            THEN DoRemoveEntity(ids, m, ids[e]) ELSE m
  IN [m1 EXCEPT !.ents = Append(m1.ents, e),
                !.children = m1.children \cup {e}]

RECURSIVE AddAll(_, _, _)
AddAll(ids, m, queue) ==
  IF queue = <<>> THEN m
  ELSE AddAll(ids, DoAddEntity(ids, m, Head(queue)), Tail(queue))

RECURSIVE RemoveAll(_, _, _)
RemoveAll(ids, m, queue) ==
  IF queue = <<>> THEN m
  ELSE RemoveAll(ids, DoRemoveEntity(ids, m, Head(queue)), Tail(queue))

\* EntityManager.processEntityQueues on the state m: adds, then removes.
DoProcessEntityQueues(ids, m, toAdd, toRemove) ==
  RemoveAll(ids, AddAll(ids, m, toAdd), toRemove)

SetEMState(m) ==
  /\ entities' = m.ents
  /\ entDestroyed' = m.destroyed
  /\ emChildren' = m.children
  /\ emCursor' = m.cursor

\* Instances constructed so far whose id is `id`.
WithId(id) == {e \in 1..(nextEntity - 1) : entId[e] = id}

\* Date.now() advances.
tick ==
  /\ now < MaxClock
  /\ now' = now + 1
  /\ UNCHANGED <<nextEntity, entId, entActive, entDestroyed, entUpdates, entities,
                 entitiesToAdd, entitiesToRemove, emChildren, emPc, emCursor,
                 emRequested>>

\* The id createEntity generates from the clock and the random draw r.
generateId(r) == <<now, r>>

createEntity(r, addImmediately) ==
  /\ nextEntity <= MaxEntities
  /\ LET e == nextEntity
         ids == [entId EXCEPT ![e] = generateId(r)]
     IN /\ entId' = ids
        /\ nextEntity' = e + 1
        /\ IF addImmediately
           THEN /\ SetEMState(DoAddEntity(ids, EMState, e))
                /\ UNCHANGED entitiesToAdd
           ELSE /\ entitiesToAdd' = Append(entitiesToAdd, e)
                /\ UNCHANGED <<entities, entDestroyed, emChildren, emCursor>>
  /\ UNCHANGED <<now, entActive, entUpdates, entitiesToRemove, emPc, emRequested>>

scheduleEntityRemoval(id) ==
  /\ entitiesToRemove' =
       IF EntitiesHas(entId, entities, id) /\ id \notin Range(entitiesToRemove)
       THEN Append(entitiesToRemove, id) ELSE entitiesToRemove
  /\ emRequested' = emRequested \cup WithId(id)
  /\ UNCHANGED <<now, nextEntity, entId, entActive, entDestroyed, entUpdates,
                 entities, entitiesToAdd, emChildren, emPc, emCursor>>

removeEntity(id) ==
  /\ SetEMState(DoRemoveEntity(entId, EMState, id))
  /\ emRequested' = emRequested \cup WithId(id)
  /\ UNCHANGED <<now, nextEntity, entId, entActive, entUpdates, entitiesToAdd,
                 entitiesToRemove, emPc>>

processEntityQueues ==
  /\ SetEMState(DoProcessEntityQueues(entId, EMState, entitiesToAdd, entitiesToRemove))
  /\ entitiesToAdd' = <<>>
  /\ entitiesToRemove' = <<>>
  /\ UNCHANGED <<now, nextEntity, entId, entActive, entUpdates, emPc, emRequested>>

\* EntityManager.update, up to the start of its loop over this.entities.values().
updateBegin ==
  /\ emPc = "idle"
  /\ LET m == DoProcessEntityQueues(entId, EMState, entitiesToAdd, entitiesToRemove)
     IN SetEMState([m EXCEPT !.cursor = 1])
  /\ entitiesToAdd' = <<>>
  /\ entitiesToRemove' = <<>>
  /\ entUpdates' = [e \in EntityRefs |-> 0]
  /\ emPc' = "updating"
  /\ UNCHANGED <<now, nextEntity, entId, entActive, emRequested>>

\* One iteration of update()'s loop: the entity the iterator is on is updated
\* if it is active. The calls the entity's components make on the manager are
\* the other actions, taken while emPc = "updating".
updateEntity ==
  /\ emPc = "updating"
  /\ emCursor <= Len(entities)
  /\ LET e == entities[emCursor]
     IN /\ entUpdates' = IF entActive[e] THEN [entUpdates EXCEPT ![e] = @ + 1]
                         ELSE entUpdates
  /\ emCursor' = emCursor + 1
  /\ UNCHANGED <<now, nextEntity, entId, entActive, entDestroyed, entities,
                 entitiesToAdd, entitiesToRemove, emChildren, emPc, emRequested>>

\* The loop of update() ends: the iterator is past the last entry.
updateEnd ==
  /\ emPc = "updating"
  /\ emCursor > Len(entities)
  /\ emPc' = "idle"
  /\ emCursor' = 0
  /\ entUpdates' = [e \in EntityRefs |-> 0]
  /\ UNCHANGED <<now, nextEntity, entId, entActive, entDestroyed, entities,
                 entitiesToAdd, entitiesToRemove, emChildren, emRequested>>

\* Game code assigns Entity.active of a live entity.
setActive(e, b) ==
  /\ e < nextEntity
  /\ entDestroyed[e] = 0
  /\ entActive[e] # b
  /\ entActive' = [entActive EXCEPT ![e] = b]
  /\ UNCHANGED <<now, nextEntity, entId, entDestroyed, entUpdates, entities,
                 entitiesToAdd, entitiesToRemove, emChildren, emPc, emCursor,
                 emRequested>>

NextEntity ==
  \/ tick /\ UNCHANGED <<sceneVars, assetVars, componentVars, viewportVars, coordVars, engineVars, lifeVars>>
  \/ \E r \in 0..(MaxRandom - 1), imm \in BOOLEAN :
       createEntity(r, imm) /\ UNCHANGED <<sceneVars, assetVars, componentVars, viewportVars, coordVars, engineVars, lifeVars>>
  \/ \E id \in IdSpace : scheduleEntityRemoval(id) /\ UNCHANGED <<sceneVars, assetVars, componentVars, viewportVars, coordVars, engineVars, lifeVars>>
  \/ \E id \in IdSpace : removeEntity(id) /\ UNCHANGED <<sceneVars, assetVars, componentVars, viewportVars, coordVars, engineVars, lifeVars>>
  \/ processEntityQueues /\ UNCHANGED <<sceneVars, assetVars, componentVars, viewportVars, coordVars, engineVars, lifeVars>>
  \/ updateBegin /\ UNCHANGED <<sceneVars, assetVars, componentVars, viewportVars, coordVars, engineVars, lifeVars>>
  \/ updateEntity /\ UNCHANGED <<sceneVars, assetVars, componentVars, viewportVars, coordVars, engineVars, lifeVars>>
  \/ updateEnd /\ UNCHANGED <<sceneVars, assetVars, componentVars, viewportVars, coordVars, engineVars, lifeVars>>
  \/ \E e \in EntityRefs, b \in BOOLEAN :
       setActive(e, b) /\ UNCHANGED <<sceneVars, assetVars, componentVars, viewportVars, coordVars, engineVars, lifeVars>>

\* ------------------------------------------------ claims on the EntityManager

\* Entity instances constructed so far, and those the manager tracks.
Created == 1..(nextEntity - 1)
Tracked == Range(entities)

\* C2: the entities createEntity has returned have pairwise different ids.
C2_UniqueIds ==
  \A e1, e2 \in Created : e1 # e2 => entId[e1] # entId[e2]

\* C3: after a processEntityQueues call the tracked entities are exactly the
\* entities created minus those whose removal was requested, no id is tracked
\* twice and both queues are empty.
C3_LiveSetAfterFlush ==
  [][processEntityQueues =>
       /\ Range(entities') = Created \ emRequested
       /\ \A i, j \in 1..Len(entities') :
            i # j => entId[entities'[i]] # entId[entities'[j]]
       /\ entitiesToAdd' = <<>>
       /\ entitiesToRemove' = <<>>]_vars

\* C4: a tracked entity whose id was queued by scheduleEntityRemoval during the
\* update pass stays tracked and undestroyed through every later step of that
\* pass (other than a removeEntity call for its id or an explicit flush of the
\* queues), and the start of the next update removes and destroys it before
\* the loop over the entities starts.
C4_DeferredRemoval ==
  [][\A e \in Tracked :
       entId[e] \in Range(entitiesToRemove) =>
         /\ (/\ emPc = "updating"
             /\ emPc' = "updating"
             /\ ~removeEntity(entId[e])
             /\ ~processEntityQueues)
            => (e \in Range(entities') /\ entDestroyed'[e] = entDestroyed[e])
         /\ updateBegin
            => (/\ e \notin Range(entities')
                /\ entDestroyed'[e] = entDestroyed[e] + 1
                /\ entUpdates'[e] = 0)]_vars

\* C5: an entity queued by createEntity(name, false) is not tracked and gets no
\* update while it is queued, and the start of the next update makes it
\* tracked before the loop over the entities starts.
C5_DeferredAdd ==
  [][\A e \in Range(entitiesToAdd) :
       /\ e \notin Tracked
       /\ entUpdates[e] = 0
       /\ updateBegin => e \in Range(entities')]_vars

\* ============================================================ SceneManager

InitScene ==
  /\ nextScene = 1
  /\ scName = [s \in SceneRefs |-> ""]
  /\ scActive = [s \in SceneRefs |-> FALSE]
  /\ scInit = [s \in SceneRefs |-> 0]
  /\ scDestroyed = [s \in SceneRefs |-> 0]
  /\ scenes = [n \in SceneNames |-> None]
  /\ activeScene = None
  /\ smChildren = {}
  /\ scPending = [s \in SceneRefs |-> 0]
  /\ smLast = [op |-> "new", name |-> "", scene |-> None, ret |-> FALSE,
               prevActive |-> None, replaced |-> None, hooks |-> <<>>]

\* The manager and its scenes at the start of a call; hooks collects the
\* Scene methods the call invokes, in order.
SMState == [scenes |-> scenes, active |-> activeScene, children |-> smChildren,
            flag |-> scActive, inits |-> scInit, destroyed |-> scDestroyed,
            ret |-> FALSE, hooks |-> <<>>]

\* Scene.init(): the base class does nothing; the call is counted.
SceneInit(m, s) ==
  [m EXCEPT !.inits[s] = @ + 1, !.hooks = Append(@, <<"init", s>>)]

\* Scene.enter() / Scene.exit()
SceneEnter(m, s) ==
  [m EXCEPT !.flag[s] = TRUE, !.hooks = Append(@, <<"enter", s>>)]

\* Mutant: exit() leaves the active flag set.
SceneExitKeepsFlag(m, s) ==
  [m EXCEPT !.hooks = Append(@, <<"exit", s>>)]

SceneExit(m, s) ==
  [m EXCEPT !.flag[s] = FALSE, !.hooks = Append(@, <<"exit", s>>)]

\* Scene.destroy(): container.destroy({children: true}) also takes the
\* container out of its parent.
SceneDestroy(m, s) ==
  [m EXCEPT !.destroyed[s] = @ + 1, !.children = @ \ {s},
            !.hooks = Append(@, <<"destroy", s>>)]

\* Mutant: addScene keeps the active reference on the scene it replaces.
DoAddSceneKeepsActive(m, s) ==
  LET name == scName[s]
      oldScene == m.scenes[name]
      m1 == IF oldScene # None THEN SceneDestroy(m, oldScene) ELSE m
      m2 == [m1 EXCEPT !.scenes[name] = s]
  IN SceneInit(m2, s)

\* SceneManager.addScene(scene)
DoAddScene(m, s) ==
  LET name == scName[s]
      oldScene == m.scenes[name]
      m1 == IF oldScene # None
            THEN SceneDestroy(
                   [m EXCEPT !.active = IF oldScene = m.active THEN None ELSE @],
                   oldScene)
            ELSE m
      m2 == [m1 EXCEPT !.scenes[name] = s]
  IN SceneInit(m2, s)

\* Mutant: switchScene enters the new scene before the old one exits.
DoSwitchSceneEnterFirst(m, sceneName) ==
  LET newScene == m.scenes[sceneName]
      m1 == SceneEnter([m EXCEPT !.children = @ \cup {newScene}], newScene)
      m2 == IF m.active # None
            THEN [SceneExit(m1, m.active) EXCEPT !.children = @ \ {m.active}]
            ELSE m1
  IN IF newScene = None THEN [m EXCEPT !.ret = FALSE]
     ELSE [m2 EXCEPT !.active = newScene, !.ret = TRUE]

\* Mutant: switchScene drops the active scene when the name is not found.
DoSwitchSceneExitsOnMiss(m, sceneName) ==
  LET newScene == m.scenes[sceneName]
      m1 == IF m.active # None
            THEN [SceneExit(m, m.active) EXCEPT !.children = @ \ {m.active}]
            ELSE m
      m2 == [m1 EXCEPT !.children = @ \cup {newScene}]
      m3 == SceneEnter(m2, newScene)
  IN IF newScene = None THEN [m1 EXCEPT !.active = None, !.ret = FALSE]
     ELSE [m3 EXCEPT !.active = newScene, !.ret = TRUE]

\* SceneManager.switchScene(sceneName)
DoSwitchScene(m, sceneName) ==
  LET newScene == m.scenes[sceneName]
      m1 == IF m.active # None
            THEN [SceneExit(m, m.active) EXCEPT !.children = @ \ {m.active}]
            ELSE m
      m2 == [m1 EXCEPT !.children = @ \cup {newScene}]
      m3 == SceneEnter(m2, newScene)
  IN IF newScene = None THEN [m EXCEPT !.ret = FALSE]
     ELSE [m3 EXCEPT !.active = newScene, !.ret = TRUE]

SetSMState(m) ==
  /\ scenes' = m.scenes
  /\ activeScene' = m.active
  /\ smChildren' = m.children
  /\ scActive' = m.flag
  /\ scInit' = m.inits
  /\ scDestroyed' = m.destroyed

\* new Scene(name)
newScene(name) ==
  /\ nextScene <= MaxScenes
  /\ nextScene' = nextScene + 1
  /\ scName' = [scName EXCEPT ![nextScene] = name]
  /\ smLast' = [op |-> "newScene", name |-> name, scene |-> nextScene,
                ret |-> FALSE, prevActive |-> activeScene, replaced |-> None,
                hooks |-> <<>>]
  /\ UNCHANGED <<scActive, scInit, scDestroyed, scenes, activeScene, smChildren,
                 scPending>>

\* sceneManager.addScene(scene) with a scene whose init() returns a promise
\* (async) or returns when it is done.
addSceneOf(s, async) ==
  /\ s < nextScene
  /\ scInit[s] < MaxSceneCalls
  /\ scenes[scName[s]] # None => scDestroyed[scenes[scName[s]]] < MaxSceneCalls
  /\ LET m == DoAddScene(SMState, s)
     IN /\ SetSMState(m)
        /\ smLast' = [op |-> "addScene", name |-> scName[s], scene |-> s,
                      ret |-> FALSE, prevActive |-> activeScene,
                      replaced |-> scenes[scName[s]], hooks |-> m.hooks]
  /\ scPending' = IF async THEN [scPending EXCEPT ![s] = @ + 1] ELSE scPending
  /\ UNCHANGED <<nextScene, scName>>

addScene(s) == addSceneOf(s, FALSE)

switchScene(sceneName) ==
  /\ LET m == DoSwitchScene(SMState, sceneName)
     IN /\ SetSMState(m)
        /\ smLast' = [op |-> "switchScene", name |-> sceneName,
                      scene |-> scenes[sceneName], ret |-> m.ret,
                      prevActive |-> activeScene, replaced |-> None,
                      hooks |-> m.hooks]
  /\ UNCHANGED <<nextScene, scName, scPending>>

NextScene ==
  \/ \E name \in SceneNames : newScene(name) /\ UNCHANGED <<entityVars, assetVars, componentVars, viewportVars, coordVars, engineVars, lifeVars>>
  \/ \E s \in SceneRefs : addScene(s) /\ UNCHANGED <<entityVars, assetVars, componentVars, viewportVars, coordVars, engineVars, lifeVars>>
  \/ \E name \in SceneNames : switchScene(name) /\ UNCHANGED <<entityVars, assetVars, componentVars, viewportVars, coordVars, engineVars, lifeVars>>

\* ------------------------------------------------- claims on the SceneManager

\* Scenes the manager holds under some name.
Registered == {scenes[n] : n \in SceneNames} \ {None}

\* A switchScene call has succeeded: enter() is the only place that sets a
\* flag, and every exit() is followed by an enter() in the same call.
Switched == \E s \in SceneRefs : scActive[s]

CountHook(hooks, h) == Cardinality({i \in 1..Len(hooks) : hooks[i] = h})

\* C6: an addScene call whose scene name is already registered calls destroy()
\* exactly once, on the scene registered before; it clears the active reference
\* if (and only if) that scene was the active one, and afterwards the name is
\* bound to the scene passed in and the replaced scene is bound to no name.
C6_AddSceneReplaces ==
  (smLast.op = "addScene" /\ smLast.replaced # None) =>
    /\ CountHook(smLast.hooks, <<"destroy", smLast.replaced>>) = 1
    /\ \A i \in 1..Len(smLast.hooks) :
         smLast.hooks[i][1] = "destroy" => smLast.hooks[i][2] = smLast.replaced
    /\ smLast.prevActive = smLast.replaced => activeScene = None
    /\ smLast.prevActive # smLast.replaced => activeScene = smLast.prevActive
    /\ scenes[smLast.name] = smLast.scene
    /\ smLast.replaced # smLast.scene => smLast.replaced \notin Registered

C6_Witness ==
  /\ smLast.op = "addScene"
  /\ smLast.replaced # None
  /\ smLast.replaced # smLast.scene
  /\ smLast.prevActive = smLast.replaced
  /\ scDestroyed[smLast.replaced] = 1

C8_SwitchScene ==
  (smLast.op = "switchScene" /\ smLast.scene # None) =>
    /\ smLast.ret = TRUE
    /\ activeScene = smLast.scene
    /\ scActive[smLast.scene]
    /\ smLast.scene \in smChildren
    /\ (smLast.prevActive # None /\ smLast.prevActive # smLast.scene) =>
         /\ smLast.hooks = << <<"exit", smLast.prevActive>>,
                              <<"enter", smLast.scene>> >>
         /\ ~scActive[smLast.prevActive]
         /\ smLast.prevActive \notin smChildren

C8_Witness ==
  /\ smLast.op = "switchScene"
  /\ smLast.scene # None
  /\ smLast.prevActive # None
  /\ smLast.prevActive # smLast.scene
  /\ smLast.ret = TRUE

\* C9: a switchScene call with a name that is not registered returns false and
\* leaves the registry, the active reference and every scene's flag, container
\* attachment and hook counts as they were.
C9_SwitchSceneNotFound ==
  [][\A n \in SceneNames :
       (switchScene(n) /\ scenes[n] = None) =>
         /\ smLast'.ret = FALSE
         /\ smLast'.hooks = <<>>
         /\ UNCHANGED <<scenes, activeScene, smChildren, scActive, scInit,
                        scDestroyed>>]_vars

C9_Witness ==
  /\ smLast.op = "switchScene"
  /\ smLast.scene = None
  /\ smLast.ret = FALSE
  /\ activeScene # None
  /\ scActive[activeScene]
  /\ activeScene \in smChildren

\* C10: init() is invoked exactly once on a scene instance: never before it is
\* registered, once when addScene registers it, and never again.
C10_InitOnce ==
  \A s \in SceneRefs :
    /\ scInit[s] <= 1
    /\ s \in Registered => scInit[s] = 1

\* C34: the active scene, when there is one, is registered under its name and
\* was not destroyed, after any addScene and switchScene calls with any
\* scene instances.
C34_ActiveIsLive ==
  activeScene # None =>
    /\ scenes[scName[activeScene]] = activeScene
    /\ scDestroyed[activeScene] = 0

\* ------------------------------------------------- scenes with an async init
\* The promise of an init() call of scene s is settled.
initSettles(s) ==
  /\ scPending[s] > 0
  /\ scPending' = [scPending EXCEPT ![s] = @ - 1]
  /\ UNCHANGED <<nextScene, scName, scActive, scInit, scDestroyed, scenes,
                 activeScene, smChildren, smLast>>

\* SceneManager.update(deltaTime)
sceneManagerUpdate ==
  /\ smLast' = [op |-> "update", name |-> "", scene |-> activeScene,
                ret |-> FALSE, prevActive |-> activeScene, replaced |-> None,
                hooks |-> IF activeScene # None
                          THEN << <<"update", activeScene>> >> ELSE <<>>]
  /\ UNCHANGED <<nextScene, scName, scActive, scInit, scDestroyed, scenes,
                 activeScene, smChildren, scPending>>

\* The SceneManager with scenes whose init() is asynchronous.
NextSceneInit ==
  \/ \E name \in SceneNames :
       newScene(name)
         /\ UNCHANGED <<entityVars, assetVars, componentVars, viewportVars,
                        coordVars, engineVars, lifeVars>>
  \/ \E s \in SceneRefs :
       addSceneOf(s, TRUE)
         /\ UNCHANGED <<entityVars, assetVars, componentVars, viewportVars,
                        coordVars, engineVars, lifeVars>>
  \/ \E s \in SceneRefs :
       initSettles(s)
         /\ UNCHANGED <<entityVars, assetVars, componentVars, viewportVars,
                        coordVars, engineVars, lifeVars>>
  \/ \E name \in SceneNames :
       switchScene(name)
         /\ UNCHANGED <<entityVars, assetVars, componentVars, viewportVars,
                        coordVars, engineVars, lifeVars>>
  \/ sceneManagerUpdate
       /\ UNCHANGED <<entityVars, assetVars, componentVars, viewportVars,
                      coordVars, engineVars, lifeVars>>

\* C37: no call of the SceneManager invokes enter() or update() on a scene
\* that has an init() call still running.
C37_InitBeforeEnter ==
  \A i \in 1..Len(smLast.hooks) :
    smLast.hooks[i][1] \in {"enter", "update"}
      => scPending[smLast.hooks[i][2]] = 0

\* ============================================================ AssetManager

NoBundle == [registered |-> FALSE, assets |-> <<>>]
NoCall == [name |-> "", state |-> "none", error |-> "", loads |-> 0,
           assets |-> <<>>]

\* The asset lists of the bundle definitions registered.
BundleAssets == {<<"a1">>, <<"a1", "a2">>}

InitAsset ==
  /\ bundles = [b \in BundleNames |-> NoBundle]
  /\ loadedBundles = [b \in BundleNames |-> "unset"]
  /\ loadedAssets = {}
  /\ pixiCache = {}
  /\ calls = [c \in CallRefs |-> NoCall]
  /\ nextCall = 1
  /\ loaderCalls = [b \in BundleNames |-> 0]
  /\ loadMarks = [b \in BundleNames |-> 0]
  /\ stale = {}
  /\ loadedDef = [b \in BundleNames |-> <<>>]

\* AssetManager.registerBundle(bundle)
registerBundle(name, assets) ==
  /\ bundles' = [bundles EXCEPT ![name] = [registered |-> TRUE, assets |-> assets]]
  /\ loadMarks' = [loadMarks EXCEPT ![name] = 0]
  /\ UNCHANGED <<loadedBundles, loadedAssets, pixiCache, calls, nextCall, loaderCalls>>

\* loadBundle that invokes the loader for a name that is not registered.
LoadBundleStartNoCheck(name) ==
  IF loadedBundles[name] = "true"
  THEN [name |-> name, state |-> "resolved", error |-> "", loads |-> 0,
        assets |-> <<>>]
  ELSE [name |-> name, state |-> "awaiting", error |-> "", loads |-> 1,
        assets |-> bundles[name].assets]

\* loadBundle that invokes the loader for a bundle that is marked loaded.
LoadBundleStartNoSkip(name) ==
  IF ~bundles[name].registered
  THEN [name |-> name, state |-> "rejected", error |-> "not found", loads |-> 0,
        assets |-> <<>>]
  ELSE [name |-> name, state |-> "awaiting", error |-> "", loads |-> 1,
        assets |-> bundles[name].assets]

\* What loadBundle does up to its await: it throws (the promise rejects) for
\* an unregistered name, returns for a bundle marked loaded, and otherwise
\* invokes Assets.loadBundle and waits for it.
LoadBundleStart(name) ==
  IF ~bundles[name].registered
  THEN [name |-> name, state |-> "rejected", error |-> "not found", loads |-> 0,
        assets |-> <<>>]
  ELSE IF loadedBundles[name] = "true"
  THEN [name |-> name, state |-> "resolved", error |-> "", loads |-> 0,
        assets |-> <<>>]
  ELSE [name |-> name, state |-> "awaiting", error |-> "", loads |-> 1,
        assets |-> bundles[name].assets]

\* AssetManager.loadBundle(bundleName) is called.
loadBundle(name) ==
  /\ nextCall <= MaxCalls
  /\ LET call == LoadBundleStart(name)
     IN /\ calls' = [calls EXCEPT ![nextCall] = call]
        /\ loaderCalls' = [loaderCalls EXCEPT ![name] = @ + call.loads]
  /\ nextCall' = nextCall + 1
  /\ UNCHANGED <<bundles, loadedBundles, loadedAssets, pixiCache, loadMarks>>

\* The Assets.loadBundle promise call c awaits is fulfilled: the assets are in
\* the cache of the rendering surface and loadBundle marks the bundle loaded.
loaderResolves(c) ==
  /\ calls[c].state = "awaiting"
  /\ pixiCache' = pixiCache \cup Range(calls[c].assets)
  /\ loadedBundles' = [loadedBundles EXCEPT ![calls[c].name] = "true"]
  /\ loadMarks' = [loadMarks EXCEPT ![calls[c].name] =
                     IF loadedBundles[calls[c].name] = "true" THEN @ ELSE @ + 1]
  /\ calls' = [calls EXCEPT ![c].state = "resolved"]
  /\ UNCHANGED <<bundles, loadedAssets, nextCall, loaderCalls>>

\* A catch block that marks the bundle loaded before rethrowing.
loaderRejectsMarksLoaded(c) ==
  /\ calls[c].state = "awaiting"
  /\ calls' = [calls EXCEPT ![c].state = "rejected", ![c].error = "loader"]
  /\ loadedBundles' = [loadedBundles EXCEPT ![calls[c].name] = "true"]
  /\ UNCHANGED <<bundles, loadedAssets, pixiCache, nextCall, loaderCalls,
                 loadMarks>>

\* The Assets.loadBundle promise call c awaits is rejected: loadBundle rethrows.
loaderRejects(c) ==
  /\ calls[c].state = "awaiting"
  /\ calls' = [calls EXCEPT ![c].state = "rejected", ![c].error = "loader"]
  /\ UNCHANGED <<bundles, loadedBundles, loadedAssets, pixiCache, nextCall,
                 loaderCalls, loadMarks>>

\* AssetManager.getAsset(name): what it returns ("null" for null), when
\* Assets.get throws (lookupThrows) or not ...
GetAssetResult(name, lookupThrows) ==
  IF name \in loadedAssets THEN name
  ELSE IF ~lookupThrows /\ name \in pixiCache THEN name
  ELSE "null"

\* getAsset that caches the name also when the lookup misses or throws.
getAssetCachesMiss(name, lookupThrows) ==
  /\ loadedAssets' = loadedAssets \cup {name}
  /\ UNCHANGED <<bundles, loadedBundles, pixiCache, calls, nextCall, loaderCalls,
                 loadMarks>>

\* ... and its call, which caches a handle found in the rendering surface.
getAsset(name, lookupThrows) ==
  /\ loadedAssets' = IF /\ name \notin loadedAssets
                        /\ ~lookupThrows
                        /\ name \in pixiCache
                     THEN loadedAssets \cup {name} ELSE loadedAssets
  /\ UNCHANGED <<bundles, loadedBundles, pixiCache, calls, nextCall, loaderCalls,
                 loadMarks>>

\* The fields unloadBundle and destroy work on.
AMState ==
  [bundles |-> bundles, loadedBundles |-> loadedBundles,
   loadedAssets |-> loadedAssets, pixiCache |-> pixiCache,
   loadMarks |-> loadMarks]

\* unloadBundle that leaves the bundle marked loaded.
DoUnloadBundleKeepsFlag(m, name) ==
  IF m.bundles[name].registered /\ m.loadedBundles[name] = "true"
  THEN [m EXCEPT !.loadedAssets = @ \ Range(m.bundles[name].assets),
                 !.pixiCache = @ \ Range(m.bundles[name].assets),
                 !.loadMarks[name] = 0]
  ELSE [m EXCEPT !.loadMarks[name] = 0]

\* AssetManager.unloadBundle: Assets.unload takes the asset out of the cache
\* of the rendering surface.
DoUnloadBundle(m, name) ==
  IF m.bundles[name].registered /\ m.loadedBundles[name] = "true"
  THEN [m EXCEPT !.loadedAssets = @ \ Range(m.bundles[name].assets),
                 !.pixiCache = @ \ Range(m.bundles[name].assets),
                 !.loadedBundles[name] = "false",
                 !.loadMarks[name] = 0]
  ELSE [m EXCEPT !.loadMarks[name] = 0]

\* destroy: unloadBundle for every bundle of the set that is marked loaded.
RECURSIVE UnloadAll(_, _)
UnloadAll(m, names) ==
  IF names = {} THEN m
  ELSE LET name == CHOOSE n \in names : TRUE
       IN UnloadAll(IF m.loadedBundles[name] = "true"
                    THEN DoUnloadBundle(m, name) ELSE m,
                    names \ {name})

SetAMState(m) ==
  /\ bundles' = m.bundles
  /\ loadedBundles' = m.loadedBundles
  /\ loadedAssets' = m.loadedAssets
  /\ pixiCache' = m.pixiCache
  /\ loadMarks' = m.loadMarks

\* AssetManager.unloadBundle(bundleName)
unloadBundle(name) ==
  /\ SetAMState(DoUnloadBundle(AMState, name))
  /\ UNCHANGED <<calls, nextCall, loaderCalls>>

\* AssetManager.destroy(): unloads the loaded bundles, then clears the maps.
destroyAssets ==
  /\ SetAMState([UnloadAll(AMState, BundleNames) EXCEPT
                   !.bundles = [b \in BundleNames |-> NoBundle],
                   !.loadedAssets = {},
                   !.loadedBundles = [b \in BundleNames |-> "unset"]])
  /\ UNCHANGED <<calls, nextCall, loaderCalls>>

NextAsset ==
  \/ \E name \in BundleNames, assets \in BundleAssets :
       registerBundle(name, assets) /\ UNCHANGED raceVars /\ UNCHANGED <<entityVars, sceneVars, componentVars, viewportVars, coordVars, engineVars, lifeVars>>
  \/ \E name \in BundleNames : loadBundle(name) /\ UNCHANGED raceVars /\ UNCHANGED <<entityVars, sceneVars, componentVars, viewportVars, coordVars, engineVars, lifeVars>>
  \/ \E c \in CallRefs : loaderResolves(c) /\ UNCHANGED raceVars /\ UNCHANGED <<entityVars, sceneVars, componentVars, viewportVars, coordVars, engineVars, lifeVars>>
  \/ \E c \in CallRefs : loaderRejects(c) /\ UNCHANGED raceVars /\ UNCHANGED <<entityVars, sceneVars, componentVars, viewportVars, coordVars, engineVars, lifeVars>>
  \/ \E name \in AssetNames, lookupThrows \in BOOLEAN :
       getAsset(name, lookupThrows) /\ UNCHANGED raceVars /\ UNCHANGED <<entityVars, sceneVars, componentVars, viewportVars, coordVars, engineVars, lifeVars>>
  \/ \E name \in BundleNames : unloadBundle(name) /\ UNCHANGED raceVars /\ UNCHANGED <<entityVars, sceneVars, componentVars, viewportVars, coordVars, engineVars, lifeVars>>
  \/ destroyAssets /\ UNCHANGED raceVars /\ UNCHANGED <<entityVars, sceneVars, componentVars, viewportVars, coordVars, engineVars, lifeVars>>

\* ------------------------------------------------- claims on the AssetManager

\* C1: two loadBundle calls for the same registered, not yet loaded bundle that
\* overlap (both are waiting for the loader) have caused one invocation of
\* Assets.loadBundle between them.
C1_OneLoaderInvocation ==
  \A c1, c2 \in CallRefs :
    (/\ c1 < c2
     /\ calls[c1].state = "awaiting"
     /\ calls[c2].state = "awaiting"
     /\ calls[c1].name = calls[c2].name)
    => calls[c1].loads + calls[c2].loads = 1

\* The fields of the manager a call can write.
managerState == <<bundles, loadedBundles, loadedAssets, pixiCache>>

\* C13: a loadBundle call for a registered bundle that is marked loaded
\* resolves without invoking the loader and without changing the manager's
\* state; and between two consecutive registerBundle / unloadBundle calls for
\* it a bundle goes from not loaded to loaded at most once.
C13_LoadedIsSkipped ==
  [][/\ \A name \in BundleNames :
          (/\ bundles[name].registered
           /\ loadedBundles[name] = "true"
           /\ loadBundle(name))
          => /\ calls'[nextCall].state = "resolved"
             /\ loaderCalls' = loaderCalls
             /\ UNCHANGED managerState
     /\ \A name \in BundleNames : loadMarks'[name] <= 1
    ]_vars

\* A loadBundle call for a loaded bundle has resolved at once, after the one
\* call that loaded the bundle.
C13_Witness ==
  \E c1, c2 \in CallRefs :
    /\ c1 < c2
    /\ calls[c1].name = calls[c2].name
    /\ calls[c1].state = "resolved" /\ calls[c1].loads = 1
    /\ calls[c2].state = "resolved" /\ calls[c2].loads = 0
    /\ loadMarks[calls[c1].name] = 1

\* C14: loadBundle with a name that is not registered rejects with a not-found
\* error, does not invoke the loader and changes no manager state.
C14_UnregisteredRejects ==
  [][\A name \in BundleNames :
       (~bundles[name].registered /\ loadBundle(name))
       => /\ calls'[nextCall].state = "rejected"
          /\ calls'[nextCall].error = "not found"
          /\ loaderCalls' = loaderCalls
          /\ UNCHANGED managerState
    ]_vars

\* A call was rejected as not found while nothing was registered under its
\* name, and the loader has not been invoked for that name.
C14_Witness ==
  \E c \in CallRefs :
    /\ calls[c].state = "rejected"
    /\ calls[c].error = "not found"
    /\ ~bundles[calls[c].name].registered
    /\ loaderCalls[calls[c].name] = 0

C16_UnloadBundle ==
  [][\A name \in BundleNames :
       unloadBundle(name)
       => IF bundles[name].registered /\ loadedBundles[name] = "true"
          THEN /\ loadedAssets' = loadedAssets \ Range(bundles[name].assets)
               /\ pixiCache' = pixiCache \ Range(bundles[name].assets)
               /\ bundles' = bundles
               /\ loadedBundles'[name] # "true"
               /\ \A other \in BundleNames \ {name} :
                    loadedBundles'[other] = loadedBundles[other]
               /\ LoadBundleStart(name)'.state = "awaiting"
               /\ LoadBundleStart(name)'.loads = 1
          ELSE UNCHANGED managerState
    ]_vars

\* A bundle was loaded, one of its assets was handed out by getAsset, and
\* unloadBundle has taken the bundle back to registered and not loaded, with
\* none of its assets left in either cache.
C16_Witness ==
  \E name \in BundleNames :
    /\ bundles[name].registered
    /\ loadedBundles[name] = "false"
    /\ loadedAssets = {}
    /\ pixiCache = {}
    /\ loaderCalls[name] >= 1

\* C17: getAsset(name) returns the locally cached handle when there is one;
\* otherwise it returns and caches the handle the rendering surface finds,
\* and returns null without caching anything when the lookup misses or
\* throws. It changes nothing else.
C17_GetAsset ==
  [][\A name \in AssetNames, lookupThrows \in BOOLEAN :
       getAsset(name, lookupThrows)
       => /\ name \in loadedAssets
             => /\ GetAssetResult(name, lookupThrows) = name
                /\ loadedAssets' = loadedAssets
          /\ (name \notin loadedAssets /\ ~lookupThrows /\ name \in pixiCache)
             => /\ GetAssetResult(name, lookupThrows) = name
                /\ loadedAssets' = loadedAssets \cup {name}
          /\ (name \notin loadedAssets /\ (lookupThrows \/ name \notin pixiCache))
             => /\ GetAssetResult(name, lookupThrows) = "null"
                /\ loadedAssets' = loadedAssets
          /\ UNCHANGED <<bundles, loadedBundles, pixiCache>>
    ]_vars

\* getAsset has cached a handle of the rendering surface, while another
\* loaded asset has not been asked for and is not cached.
C17_Witness ==
  /\ loadedAssets # {}
  /\ loadedAssets \subseteq pixiCache
  /\ pixiCache \ loadedAssets # {}

\* ------------------------------------------- loads in flight and definitions
\* The calls waiting for the loader of one of the bundles `names`.
Waiting(names) ==
  {c \in CallRefs : calls[c].state = "awaiting" /\ calls[c].name \in names}

\* The bundles marked loaded.
MarkedLoaded == {b \in BundleNames : loadedBundles[b] = "true"}

\* The AssetManager with the record of what the loader loaded and of the
\* calls that an unloadBundle call overtook.
NextAssetRace ==
  \/ \E name \in BundleNames, assets \in BundleAssets :
       /\ registerBundle(name, assets)
       /\ UNCHANGED raceVars
       /\ UNCHANGED <<entityVars, sceneVars, componentVars, viewportVars,
                      coordVars, engineVars, lifeVars>>
  \/ \E name \in BundleNames :
       /\ loadBundle(name)
       /\ UNCHANGED raceVars
       /\ UNCHANGED <<entityVars, sceneVars, componentVars, viewportVars,
                      coordVars, engineVars, lifeVars>>
  \/ \E c \in CallRefs :
       /\ loaderResolves(c)
       /\ stale' = stale \ {c}
       /\ loadedDef' = [loadedDef EXCEPT ![calls[c].name] = calls[c].assets]
       /\ UNCHANGED <<entityVars, sceneVars, componentVars, viewportVars,
                      coordVars, engineVars, lifeVars>>
  \/ \E name \in BundleNames :
       /\ unloadBundle(name)
       /\ stale' = IF name \in MarkedLoaded /\ bundles[name].registered
                   THEN stale \cup Waiting({name}) ELSE stale
       /\ loadedDef' = IF name \in MarkedLoaded /\ bundles[name].registered
                       THEN [loadedDef EXCEPT ![name] = <<>>] ELSE loadedDef
       /\ UNCHANGED <<entityVars, sceneVars, componentVars, viewportVars,
                      coordVars, engineVars, lifeVars>>
  \/ /\ destroyAssets
     /\ stale' = stale \cup Waiting(MarkedLoaded)
     /\ loadedDef' = [b \in BundleNames |-> <<>>]
     /\ UNCHANGED <<entityVars, sceneVars, componentVars, viewportVars,
                    coordVars, engineVars, lifeVars>>

\* C35: every bundle marked loaded is registered, whatever the interleaving
\* of the calls and the loader's completions, destroy() during a load
\* included (so after destroy() no bundle is marked loaded until one is
\* registered again).
C35_LoadedAreRegistered ==
  \A b \in BundleNames : loadedBundles[b] = "true" => bundles[b].registered

\* C36: the completion of a load that was started before unloadBundle
\* unloaded its bundle does not mark the bundle loaded again.
C36_StaleLoadDoesNotMark ==
  [][\A c \in CallRefs :
       (c \in stale /\ loadedBundles[calls[c].name] # "true" /\ loaderResolves(c))
         => loadedBundles'[calls[c].name] # "true"]_vars

\* C39: a registered bundle is marked loaded only if the definition registered
\* now is the one whose assets the loader loaded.
C39_LoadedIsCurrentDefinition ==
  \A b \in BundleNames :
    (loadedBundles[b] = "true" /\ bundles[b].registered)
      => loadedDef[b] = bundles[b].assets

\* =================================================== Entity and its components
InitComponent ==
  /\ components = [h \in Hosts |-> <<>>]
  /\ compEntity = [c \in ComponentRefs |-> None]
  /\ enLast = [op |-> "none", host |-> None, key |-> "", comp |-> None,
               prev |-> None, ret |-> None, hooks |-> <<>>]

\* The state the Entity methods work on, with what they return and the hooks
\* of the components they call, in call order.
ENState ==
  [components |-> components, entity |-> compEntity, ret |-> None,
   hooks |-> <<>>]

\* Map.has / Map.get / Map.set / Map.delete on insertion-ordered entries.
MapHas(map, key) == \E i \in 1..Len(map) : map[i][1] = key
MapPos(map, key) == CHOOSE i \in 1..Len(map) : map[i][1] = key
MapGet(map, key) == IF MapHas(map, key) THEN map[MapPos(map, key)][2] ELSE None
MapSet(map, key, val) ==
  IF MapHas(map, key) THEN [map EXCEPT ![MapPos(map, key)] = <<key, val>>]
  ELSE Append(map, <<key, val>>)
MapDelete(map, key) ==
  IF MapHas(map, key) THEN RemoveAt(map, MapPos(map, key)) ELSE map

\* Entity.getComponent: components.get(type) || null.
GetComponent(m, h, key) == MapGet(m.components[h], key)

\* Entity.hasComponent.
HasComponent(m, h, key) == MapHas(m.components[h], key)

\* removeComponent that takes the first attached component when the key is
\* not attached.
DoRemoveComponentAnyKey(m, h, key) ==
  LET map == m.components[h]
      k == IF MapHas(map, key) \/ map = <<>> THEN key ELSE map[1][1]
      c == MapGet(map, k)
  IN IF c = None THEN [m EXCEPT !.ret = FALSE]
     ELSE [m EXCEPT !.hooks = Append(@, <<"destroy", c>>),
                    !.components[h] = MapDelete(@, k),
                    !.entity[c] = None,
                    !.ret = TRUE]

\* Entity.removeComponent.
DoRemoveComponent(m, h, key) ==
  LET c == MapGet(m.components[h], key)
  IN IF c = None THEN [m EXCEPT !.ret = FALSE]
     ELSE [m EXCEPT !.hooks = Append(@, <<"destroy", c>>),
                    !.components[h] = MapDelete(@, key),
                    !.entity[c] = None,
                    !.ret = TRUE]

\* addComponent that overwrites the entry without removing the old component.
DoAddComponentNoRemove(m, h, c, key) ==
  LET m2 == [m EXCEPT !.entity[c] = h,
                      !.components[h] = MapSet(@, key, c),
                      !.hooks = Append(@, <<"set", c>>)]
  IN [m2 EXCEPT !.hooks = Append(@, <<"init", c>>),
                !.ret = c]

\* Entity.addComponent.
DoAddComponent(m, h, c, key) ==
  LET m1 == IF HasComponent(m, h, key) THEN DoRemoveComponent(m, h, key) ELSE m
      m2 == [m1 EXCEPT !.entity[c] = h,
                       !.components[h] = MapSet(@, key, c),
                       !.hooks = Append(@, <<"set", c>>)]
  IN [m2 EXCEPT !.hooks = Append(@, <<"init", c>>),
                !.ret = c]

SetENState(m) ==
  /\ components' = m.components
  /\ compEntity' = m.entity

\* entity.addComponent(component, componentType), with any component instance.
addComponent(h, c, key) ==
  LET prev == GetComponent(ENState, h, key)
      m == DoAddComponent(ENState, h, c, key)
  IN /\ SetENState(m)
     /\ enLast' = [op |-> "addComponent", host |-> h, key |-> key, comp |-> c,
                   prev |-> prev, ret |-> m.ret, hooks |-> m.hooks]

\* entity.removeComponent(componentType).
removeComponent(h, key) ==
  LET prev == GetComponent(ENState, h, key)
      m == DoRemoveComponent(ENState, h, key)
  IN /\ SetENState(m)
     /\ enLast' = [op |-> "removeComponent", host |-> h, key |-> key,
                   comp |-> None, prev |-> prev, ret |-> m.ret,
                   hooks |-> m.hooks]

\* entity.getComponent(componentType).
getComponent(h, key) ==
  /\ enLast' = [op |-> "getComponent", host |-> h, key |-> key, comp |-> None,
                prev |-> GetComponent(ENState, h, key),
                ret |-> GetComponent(ENState, h, key), hooks |-> <<>>]
  /\ UNCHANGED <<components, compEntity>>

\* entity.hasComponent(componentType).
hasComponent(h, key) ==
  /\ enLast' = [op |-> "hasComponent", host |-> h, key |-> key, comp |-> None,
                prev |-> GetComponent(ENState, h, key),
                ret |-> HasComponent(ENState, h, key), hooks |-> <<>>]
  /\ UNCHANGED <<components, compEntity>>

NextComponent ==
  \/ \E h \in Hosts, c \in ComponentRefs, key \in TypeKeys :
       addComponent(h, c, key) /\ UNCHANGED <<entityVars, sceneVars, assetVars, viewportVars, coordVars, engineVars, lifeVars>>
  \/ \E h \in Hosts, key \in TypeKeys :
       removeComponent(h, key) /\ UNCHANGED <<entityVars, sceneVars, assetVars, viewportVars, coordVars, engineVars, lifeVars>>
  \/ \E h \in Hosts, key \in TypeKeys :
       getComponent(h, key) /\ UNCHANGED <<entityVars, sceneVars, assetVars, viewportVars, coordVars, engineVars, lifeVars>>
  \/ \E h \in Hosts, key \in TypeKeys :
       hasComponent(h, key) /\ UNCHANGED <<entityVars, sceneVars, assetVars, viewportVars, coordVars, engineVars, lifeVars>>

\* ---------------------------------------------- claims on Entity's components
\* The keys of an entity's component Map, one per entry.
KeysOf(map) == [i \in 1..Len(map) |-> map[i][1]]

\* C11: an entity holds at most one component per type-key, and an
\* addComponent under an occupied key calls destroy() exactly once on the
\* previously attached instance, before the new instance is attached and
\* initialized; getComponent for that key then returns the new instance.
C11_OnePerTypeKey ==
  /\ \A h \in Hosts : \A i, j \in 1..Len(components[h]) :
       KeysOf(components[h])[i] = KeysOf(components[h])[j] => i = j
  /\ (enLast.op = "addComponent" /\ enLast.prev # None) =>
       /\ enLast.hooks = << <<"destroy", enLast.prev>>, <<"set", enLast.comp>>,
                            <<"init", enLast.comp>> >>
       /\ GetComponent(ENState, enLast.host, enLast.key) = enLast.comp

\* An addComponent has just replaced another instance under the same key.
C11_Witness ==
  /\ enLast.op = "addComponent"
  /\ enLast.prev # None
  /\ enLast.prev # enLast.comp

\* C12: getComponent, hasComponent and removeComponent with a type-key that is
\* not attached return null, false and false, call destroy() on no component
\* and leave the entity's mapping unchanged.
C12_MissingKey ==
  [][\A h \in Hosts, key \in TypeKeys :
       ~HasComponent(ENState, h, key) =>
         /\ getComponent(h, key) =>
              enLast'.ret = None /\ enLast'.hooks = <<>>
                /\ UNCHANGED <<components, compEntity>>
         /\ hasComponent(h, key) =>
              enLast'.ret = FALSE /\ enLast'.hooks = <<>>
                /\ UNCHANGED <<components, compEntity>>
         /\ removeComponent(h, key) =>
              enLast'.ret = FALSE /\ enLast'.hooks = <<>>
                /\ UNCHANGED <<components, compEntity>>
    ]_vars

\* removeComponent was called with a key that is not attached, on an entity
\* that holds a component under another key.
C12_Witness ==
  /\ enLast.op = "removeComponent"
  /\ enLast.prev = None
  /\ components[enLast.host] # <<>>

\* The components attached to entity h.
AttachedTo(h) == {components[h][i][2] : i \in 1..Len(components[h])}

\* C38: every component attached to an entity has that entity as its
\* back-reference, and every component attached to no entity has none, after
\* any addComponent and removeComponent calls with any component instances.
C38_BackReferences ==
  /\ \A h \in Hosts : \A c \in AttachedTo(h) : compEntity[c] = h
  /\ \A c \in ComponentRefs :
       (\A h \in Hosts : c \notin AttachedTo(h)) => compEntity[c] = None

\* ============================================================ ViewportManager
\* A quotient a / b of two numbers, kept as the pair <<a, b>> with b > 0.
Div(a, b) == <<a, b>>
RatEq(p, q) == p[1] * q[2] = q[1] * p[2]
RatLeq(p, q) == p[1] * q[2] <= q[1] * p[2]
\* Math.min
RatMin(p, q) == IF RatLeq(p, q) THEN p ELSE q
\* Math.max
Max(a, b) == IF a >= b THEN a ELSE b
\* config.option || fallback
OrDefault(option, fallback) == IF option = 0 THEN fallback ELSE option

NoViewport ==
  [constructed |-> FALSE, width |-> 0, height |-> 0,
   designWidth |-> 0, designHeight |-> 0,
   scaleX |-> <<1, 1>>, scaleY |-> <<1, 1>>, scale |-> <<1, 1>>,
   orientation |-> "", maintainAspectRatio |-> TRUE, deviceType |-> "desktop",
   tabletThreshold |-> 0, desktopThreshold |-> 0]

InitViewport ==
  /\ window = [innerWidth |-> DefaultDesignWidth,
               innerHeight |-> DefaultDesignHeight]
  /\ viewport = NoViewport
  /\ vmLast = [op |-> "none", width |-> 0, height |-> 0, orientation |-> "",
               deviceType |-> "", raised |-> <<>>]

\* detectOrientation with > in the place of >=.
DetectOrientationStrict(v) ==
  IF v.width > v.height THEN "landscape" ELSE "portrait"

\* ViewportManager.detectOrientation
DetectOrientation(v) ==
  IF v.width >= v.height THEN "landscape" ELSE "portrait"

\* ViewportManager.detectDeviceType, with the window w it reads.
DetectDeviceType(v, w) ==
  LET longerDimension == Max(w.innerWidth, w.innerHeight)
  IN IF longerDimension < v.tabletThreshold THEN "mobile"
     ELSE IF longerDimension < v.desktopThreshold THEN "tablet"
     ELSE "desktop"

\* ViewportManager.calculateScales
CalculateScales(v) ==
  LET sx == Div(v.width, v.designWidth)
      sy == Div(v.height, v.designHeight)
  IN [v EXCEPT !.scaleX = sx, !.scaleY = sy,
               !.scale = IF v.maintainAspectRatio THEN RatMin(sx, sy)
                         ELSE <<1, 1>>]

\* The ViewportManager constructor.
Construct(config, w) ==
  LET v1 == [NoViewport EXCEPT
               !.constructed = TRUE,
               !.width = w.innerWidth,
               !.height = w.innerHeight,
               !.designWidth = OrDefault(config.designWidth, DefaultDesignWidth),
               !.designHeight = OrDefault(config.designHeight, DefaultDesignHeight),
               !.maintainAspectRatio = config.maintainAspectRatio,
               !.tabletThreshold =
                  OrDefault(config.tabletThreshold, DefaultTabletThreshold),
               !.desktopThreshold =
                  OrDefault(config.desktopThreshold, DefaultDesktopThreshold)]
      v2 == [v1 EXCEPT !.orientation = DetectOrientation(v1)]
      v3 == [v2 EXCEPT !.deviceType = DetectDeviceType(v2, w)]
  IN CalculateScales(v3)

\* resize that raises the notifications and keeps the orientation and the
\* device type it held.
DoResizeKeepsHeld(v, w, width, height) ==
  LET v1 == [v EXCEPT !.width = width, !.height = height]
      newOrientation == DetectOrientation(v1)
      newDeviceType == DetectDeviceType(v1, w)
  IN [viewport |-> CalculateScales(v1),
      raised |->
        (IF newOrientation # v.orientation
         THEN << <<"onOrientationChange", newOrientation>> >> ELSE <<>>)
        \o (IF newDeviceType # v.deviceType
            THEN << <<"onDeviceTypeChange", newDeviceType>> >> ELSE <<>>)]

\* ViewportManager.resize(width, height): the fields after the call and the
\* notifications raised, in call order.
DoResize(v, w, width, height) ==
  LET v1 == [v EXCEPT !.width = width, !.height = height]
      newOrientation == DetectOrientation(v1)
      newDeviceType == DetectDeviceType(v1, w)
      orientationChanged == newOrientation # v.orientation
      deviceTypeChanged == newDeviceType # v.deviceType
      v2 == CalculateScales([v1 EXCEPT !.orientation = newOrientation,
                                       !.deviceType = newDeviceType])
  IN [viewport |-> v2,
      raised |->
        (IF orientationChanged
         THEN << <<"onOrientationChange", newOrientation>> >> ELSE <<>>)
        \o (IF deviceTypeChanged
            THEN << <<"onDeviceTypeChange", newDeviceType>> >> ELSE <<>>)]

\* new ViewportManager(app, config)
newViewportManager(config) ==
  /\ ~viewport.constructed
  /\ viewport' = Construct(config, window)
  /\ vmLast' = [op |-> "new", width |-> window.innerWidth,
                height |-> window.innerHeight, orientation |-> "",
                deviceType |-> "", raised |-> <<>>]
  /\ UNCHANGED window

\* viewportManager.resize(width, height), called with any dimensions.
viewportResize(width, height) ==
  /\ viewport.constructed
  /\ LET r == DoResize(viewport, window, width, height)
     IN /\ viewport' = r.viewport
        /\ vmLast' = [op |-> "resize", width |-> width, height |-> height,
                      orientation |-> viewport.orientation,
                      deviceType |-> viewport.deviceType, raised |-> r.raised]
  /\ UNCHANGED window

\* The window is resized; the 'resize' listener of a constructed manager,
\* handleResize, calls resize(window.innerWidth, window.innerHeight).
handleResize(width, height) ==
  /\ <<width, height>> # <<window.innerWidth, window.innerHeight>>
  /\ window' = [innerWidth |-> width, innerHeight |-> height]
  /\ IF viewport.constructed
     THEN LET r == DoResize(viewport, window', width, height)
          IN /\ viewport' = r.viewport
             /\ vmLast' = [op |-> "resize", width |-> width, height |-> height,
                           orientation |-> viewport.orientation,
                           deviceType |-> viewport.deviceType,
                           raised |-> r.raised]
     ELSE UNCHANGED <<viewport, vmLast>>

NextViewport ==
  \/ \E config \in Configs :
       newViewportManager(config)
         /\ UNCHANGED <<entityVars, sceneVars, assetVars, componentVars, coordVars, engineVars, lifeVars>>
  \/ \E width \in Sizes, height \in Sizes :
       viewportResize(width, height)
         /\ UNCHANGED <<entityVars, sceneVars, assetVars, componentVars, coordVars, engineVars, lifeVars>>
  \/ \E width \in Sizes, height \in Sizes :
       handleResize(width, height)
         /\ UNCHANGED <<entityVars, sceneVars, assetVars, componentVars, coordVars, engineVars, lifeVars>>

\* ------------------------------------------- claims on the ViewportManager
\* The device type of section 4.3 for given dimensions and thresholds.
DeviceTypeFor(width, height, tabletThreshold, desktopThreshold) ==
  IF Max(width, height) < tabletThreshold THEN "mobile"
  ELSE IF Max(width, height) < desktopThreshold THEN "tablet"
  ELSE "desktop"

\* The number of notifications of one kind in a sequence of notifications.
Raised(notes, kind) == Cardinality({i \in 1..Len(notes) : notes[i][1] = kind})

\* C18: after a resize(width, height) call the device type is the one that
\* the width and height passed to the call give with the configured
\* thresholds.
C18_DeviceTypeOfArguments ==
  vmLast.op = "resize" =>
    viewport.deviceType =
      DeviceTypeFor(vmLast.width, vmLast.height, viewport.tabletThreshold,
                    viewport.desktopThreshold)

C20_EdgeTriggered ==
  vmLast.op = "resize" =>
    /\ Raised(vmLast.raised, "onOrientationChange") =
         (IF (IF vmLast.width >= vmLast.height THEN "landscape" ELSE "portrait")
               # vmLast.orientation
          THEN 1 ELSE 0)
    /\ Raised(vmLast.raised, "onDeviceTypeChange") =
         (IF DeviceTypeFor(vmLast.width, vmLast.height,
                           viewport.tabletThreshold, viewport.desktopThreshold)
               # vmLast.deviceType
          THEN 1 ELSE 0)

\* ---------------------------------------------- floating-point arithmetic
\* A number is <<m, e>>, the value m * 2^e, with 2^(Precision-1) <= |m| <
\* 2^Precision, or <<0, 0>>. Every operation rounds its exact result to the
\* nearest number, ties to the even significand.
Abs(n) == IF n < 0 THEN -n ELSE n
Sign(n) == IF n < 0 THEN -1 ELSE 1

\* a / b rounded to the nearest integer, ties to even (a >= 0, b > 0).
RoundDiv(a, b) ==
  LET q == a \div b
      r == a % b
  IN IF 2 * r > b \/ (2 * r = b /\ q % 2 = 1) THEN q + 1 ELSE q

RECURSIVE ExcessBits(_)
ExcessBits(a) == IF a < 2^Precision THEN 0 ELSE 1 + ExcessBits(a \div 2)

RECURSIVE MissingBits(_)
MissingBits(a) == IF a >= 2^(Precision - 1) THEN 0 ELSE 1 + MissingBits(2 * a)

\* The number nearest to the exact value m * 2^e.
Normalize(m, e) ==
  IF m = 0 THEN <<0, 0>>
  ELSE LET a == Abs(m)
           k == ExcessBits(a)
           r == IF k > 0 THEN RoundDiv(a, 2^k) ELSE a
           j == MissingBits(r)
       IN IF r = 2^Precision THEN <<Sign(m) * 2^(Precision - 1), e + k + 1>>
          ELSE <<Sign(m) * r * 2^j, e + k - j>>

FromInt(n) == Normalize(n, 0)

\* x * y
FMul(x, y) == Normalize(x[1] * y[1], x[2] + y[2])

\* x + y: an operand below half a unit in the last place of the other one
\* does not change it.
FAdd(x, y) ==
  IF x[1] = 0 THEN y
  ELSE IF y[1] = 0 THEN x
  ELSE LET hi == IF x[2] >= y[2] THEN x ELSE y
           lo == IF x[2] >= y[2] THEN y ELSE x
           d == hi[2] - lo[2]
       IN IF d > Precision + 1 THEN hi
          ELSE Normalize(hi[1] * 2^d + lo[1], lo[2])

\* x - y
FSub(x, y) == FAdd(x, <<-y[1], y[2]>>)

\* x / y (y is not 0)
FDiv(x, y) ==
  IF x[1] = 0 THEN <<0, 0>>
  ELSE LET a == Abs(x[1])
           b == Abs(y[1])
           k == IF a >= b THEN Precision - 1 ELSE Precision
       IN Normalize(Sign(x[1]) * Sign(y[1]) * RoundDiv(a * 2^k, b),
                    x[2] - y[2] - k)

\* x / 2
FHalf(x) == IF x[1] = 0 THEN x ELSE <<x[1], x[2] - 1>>

\* The quotient <<a, b>> as a number: a / b.
FQuot(p) == FDiv(FromInt(p[1]), FromInt(p[2]))

\* ------------------------------------------------------ coordinate mapping
\* toScreenCoords that applies the uniform scale under both policies.
ToScreenCoordsUniform(v, x, y) ==
  LET scale == FQuot(v.scale)
      offsetX == IF v.maintainAspectRatio
                 THEN FHalf(FSub(FromInt(v.width),
                                 FMul(FromInt(v.designWidth), scale)))
                 ELSE <<0, 0>>
      offsetY == IF v.maintainAspectRatio
                 THEN FHalf(FSub(FromInt(v.height),
                                 FMul(FromInt(v.designHeight), scale)))
                 ELSE <<0, 0>>
  IN <<FAdd(offsetX, FMul(x, scale)), FAdd(offsetY, FMul(y, scale))>>

\* ViewportManager.toScreenCoords
ToScreenCoords(v, x, y) ==
  IF v.maintainAspectRatio
  THEN LET scale == FQuot(v.scale)
           scaledWidth == FMul(FromInt(v.designWidth), scale)
           scaledHeight == FMul(FromInt(v.designHeight), scale)
           offsetX == FHalf(FSub(FromInt(v.width), scaledWidth))
           offsetY == FHalf(FSub(FromInt(v.height), scaledHeight))
       IN <<FAdd(offsetX, FMul(x, scale)), FAdd(offsetY, FMul(y, scale))>>
  ELSE <<FMul(x, FQuot(v.scaleX)), FMul(y, FQuot(v.scaleY))>>

\* toDesignCoords that multiplies by the scale where the code divides.
ToDesignCoordsMultiplies(v, x, y) ==
  IF v.maintainAspectRatio
  THEN LET scale == FQuot(v.scale)
           scaledWidth == FMul(FromInt(v.designWidth), scale)
           scaledHeight == FMul(FromInt(v.designHeight), scale)
           offsetX == FHalf(FSub(FromInt(v.width), scaledWidth))
           offsetY == FHalf(FSub(FromInt(v.height), scaledHeight))
       IN <<FMul(FSub(x, offsetX), scale), FMul(FSub(y, offsetY), scale)>>
  ELSE <<FMul(x, FQuot(v.scaleX)), FMul(y, FQuot(v.scaleY))>>

\* ViewportManager.toDesignCoords
ToDesignCoords(v, x, y) ==
  IF v.maintainAspectRatio
  THEN LET scale == FQuot(v.scale)
           scaledWidth == FMul(FromInt(v.designWidth), scale)
           scaledHeight == FMul(FromInt(v.designHeight), scale)
           offsetX == FHalf(FSub(FromInt(v.width), scaledWidth))
           offsetY == FHalf(FSub(FromInt(v.height), scaledHeight))
       IN <<FDiv(FSub(x, offsetX), scale), FDiv(FSub(y, offsetY), scale)>>
  ELSE <<FDiv(x, FQuot(v.scaleX)), FDiv(y, FQuot(v.scaleY))>>

NoCoords == [op |-> "none", x |-> <<0, 0>>, y |-> <<0, 0>>,
             ret |-> << <<0, 0>>, <<0, 0>> >>]

InitCoords == vmCoords = NoCoords

\* viewportManager.toScreenCoords(x, y)
toScreenCoords(x, y) ==
  /\ viewport.constructed
  /\ vmCoords' = [op |-> "toScreenCoords", x |-> FromInt(x), y |-> FromInt(y),
                  ret |-> ToScreenCoords(viewport, FromInt(x), FromInt(y))]
  /\ UNCHANGED viewportVars

\* viewportManager.toDesignCoords(x, y)
toDesignCoords(x, y) ==
  /\ viewport.constructed
  /\ vmCoords' = [op |-> "toDesignCoords", x |-> FromInt(x), y |-> FromInt(y),
                  ret |-> ToDesignCoords(viewport, FromInt(x), FromInt(y))]
  /\ UNCHANGED viewportVars

\* The ViewportManager with its coordinate mapping, in a window that keeps
\* its size.
NextCoords ==
  \/ \E config \in Configs :
       newViewportManager(config) /\ vmCoords' = NoCoords
         /\ UNCHANGED <<entityVars, sceneVars, assetVars, componentVars, engineVars, lifeVars>>
  \/ \E width \in Sizes, height \in Sizes :
       viewportResize(width, height) /\ vmCoords' = NoCoords
         /\ UNCHANGED <<entityVars, sceneVars, assetVars, componentVars, engineVars, lifeVars>>
  \/ \E x \in Points, y \in Points :
       toScreenCoords(x, y)
         /\ UNCHANGED <<entityVars, sceneVars, assetVars, componentVars, engineVars, lifeVars>>
  \/ \E x \in Points, y \in Points :
       toDesignCoords(x, y)
         /\ UNCHANGED <<entityVars, sceneVars, assetVars, componentVars, engineVars, lifeVars>>

\* -------------------------------------------- claims on coordinate mapping
\* The offset (size - designSize * scale) / 2 of the centred design rectangle.
CentreOffset(size, designSize, scale) ==
  FHalf(FSub(FromInt(size), FMul(FromInt(designSize), scale)))

\* C21 as stated: toScreenCoords(x, y) returns (offsetX + x * scale, offsetY +
\* y * scale) with the uniform scale, the offsets being the centring offsets
\* when maintainAspectRatio is set and 0 when it is not.
C21_UniformScale ==
  vmCoords.op = "toScreenCoords" =>
    LET scale == FQuot(viewport.scale)
        offsetX == IF viewport.maintainAspectRatio
                   THEN CentreOffset(viewport.width, viewport.designWidth, scale)
                   ELSE <<0, 0>>
        offsetY == IF viewport.maintainAspectRatio
                   THEN CentreOffset(viewport.height, viewport.designHeight, scale)
                   ELSE <<0, 0>>
    IN vmCoords.ret = <<FAdd(offsetX, FMul(vmCoords.x, scale)),
                        FAdd(offsetY, FMul(vmCoords.y, scale))>>

\* C21, amended: with maintainAspectRatio set toScreenCoords(x, y) returns
\* (offsetX + x * scale, offsetY + y * scale) with the uniform scale and the
\* centring offsets; with maintainAspectRatio not set it returns
\* (x * scaleX, y * scaleY).
C21_ToScreenCoords ==
  vmCoords.op = "toScreenCoords" =>
    IF viewport.maintainAspectRatio
    THEN LET scale == FQuot(viewport.scale)
             offsetX == CentreOffset(viewport.width, viewport.designWidth, scale)
             offsetY == CentreOffset(viewport.height, viewport.designHeight, scale)
         IN vmCoords.ret = <<FAdd(offsetX, FMul(vmCoords.x, scale)),
                             FAdd(offsetY, FMul(vmCoords.y, scale))>>
    ELSE vmCoords.ret = <<FMul(vmCoords.x, FDiv(FromInt(viewport.width),
                                                 FromInt(viewport.designWidth))),
                          FMul(vmCoords.y, FDiv(FromInt(viewport.height),
                                                 FromInt(viewport.designHeight)))>>

\* toScreenCoords was called on a viewport that does not keep the aspect
\* ratio and is narrower than the design, with a point off the origin.
C21_Witness ==
  /\ vmCoords.op = "toScreenCoords"
  /\ ~viewport.maintainAspectRatio
  /\ viewport.width < viewport.designWidth
  /\ vmCoords.x # <<0, 0>>
  /\ vmCoords.ret[1] # vmCoords.x

\* The scale factor and the offset the mapping applies on axis i (1: x, 2: y).
AxisScale(v, i) ==
  IF v.maintainAspectRatio THEN FQuot(v.scale)
  ELSE IF i = 1 THEN FQuot(v.scaleX) ELSE FQuot(v.scaleY)
AxisOffset(v, i) ==
  IF ~v.maintainAspectRatio THEN <<0, 0>>
  ELSE IF i = 1 THEN CentreOffset(v.width, v.designWidth, FQuot(v.scale))
  ELSE CentreOffset(v.height, v.designHeight, FQuot(v.scale))

\* Exact |a - b| and exact a <= b of values m * 2^e with m >= 0 in DLeq.
DAbsDiff(a, b) ==
  LET ea == IF a[1] = 0 THEN b[2] ELSE a[2]
      eb == IF b[1] = 0 THEN a[2] ELSE b[2]
      e == IF ea <= eb THEN ea ELSE eb
  IN <<Abs(a[1] * 2^(ea - e) - b[1] * 2^(eb - e)), e>>
DLeq(a, b) ==
  IF a[2] >= b[2]
  THEN LET d == a[2] - b[2]
       IN IF d > 30 THEN a[1] = 0 ELSE a[1] <= b[1] \div 2^d
  ELSE LET d == b[2] - a[2]
       IN IF d > 30 THEN a[1] = 0 \/ b[1] > 0
          ELSE (a[1] + 2^d - 1) \div 2^d <= b[1]

EmptyConfig ==
  [designWidth |-> 0, designHeight |-> 0, maintainAspectRatio |-> TRUE,
   tabletThreshold |-> 0, desktopThreshold |-> 0]

\* The EngineConfig objects passed to the constructor.
EngineConfigs == [debug : BOOLEAN, viewport : Configs]

\* ticker.deltaTime of a frame.
TickerDeltas == {1, 2}

NoEngine ==
  [phase |-> "none", debug |-> FALSE,
   config |-> [debug |-> FALSE, viewport |-> EmptyConfig],
   overlay |-> FALSE, hasViewport |-> FALSE]

NoEngineCall ==
  [op |-> "none", phase |-> "none", dt |-> <<0, 1>>, active |-> None,
   size |-> <<0, 0>>, before |-> NoViewport, held |-> {}, raised |-> <<>>,
   log |-> <<>>, error |-> ""]

InitEngine ==
  /\ engine = NoEngine
  /\ ticker = 0
  /\ listeners = <<>>
  /\ egLast = NoEngineCall

\* handleResize.bind(this): every call makes a new function, here the pair of
\* the object it is bound to and the place of the call.
Bind(owner, place) == <<owner, place>>

\* window.removeEventListener('resize', fn): takes fn out if it is registered.
RemoveEventListener(ls, fn) == SelectSeq(ls, LAMBDA l : l # fn)

\* app.init() has resolved: the rendering surface has its ticker.
AppInitialized(e) == e.phase \in {"awaitAssets", "initialized"}

\* new Engine(config): debug is stored, config.viewport is not (`config` keeps
\* the argument for the claims).
newEngine(config) ==
  /\ engine.phase = "none"
  /\ engine' = [NoEngine EXCEPT !.phase = "constructed", !.debug = config.debug,
                                !.config = config]
  /\ UNCHANGED <<ticker, listeners, egLast>>
  /\ UNCHANGED <<entityVars, sceneVars, assetVars, viewportVars>>

\* engine.init(container), up to `await this.app.init(...)`.
engineInit ==
  /\ engine.phase = "constructed"
  /\ engine' = [engine EXCEPT !.phase = "awaitApp"]
  /\ UNCHANGED <<ticker, listeners, egLast>>
  /\ UNCHANGED <<entityVars, sceneVars, assetVars, viewportVars>>

\* app.init() resolves: init goes on to `new ViewportManager(this.app)`, whose
\* constructor registers its resize listener, and up to
\* `await this.assetManager.init()`.
appInitResolves ==
  /\ engine.phase = "awaitApp"
  /\ newViewportManager(EmptyConfig)
  /\ engine' = [engine EXCEPT !.phase = "awaitAssets", !.hasViewport = TRUE]
  /\ listeners' = Append(listeners, Bind("viewport", "constructor"))
  /\ UNCHANGED <<ticker, egLast>>
  /\ UNCHANGED <<entityVars, sceneVars, assetVars>>

\* assetManager.init() resolves: init sets up the debug overlay if debug is
\* set, adds Engine.update to the ticker and registers the resize listener.
assetManagerInitResolves ==
  /\ engine.phase = "awaitAssets"
  /\ engine' = [engine EXCEPT !.phase = "initialized", !.overlay = engine.debug]
  /\ ticker' = ticker + 1
  /\ listeners' = Append(listeners, Bind("engine", "init"))
  /\ UNCHANGED egLast
  /\ UNCHANGED <<entityVars, sceneVars, assetVars, viewportVars>>

\* EntityManager.destroy on the state m.
RECURSIVE DestroyAllEntities(_, _)
DestroyAllEntities(destroyed, ents) ==
  IF ents = <<>> THEN destroyed
  ELSE DestroyAllEntities(EntityDestroy(destroyed, Head(ents)), Tail(ents))

DoDestroyEntityManager(m) ==
  [m EXCEPT !.ents = <<>>,
            !.destroyed = DestroyAllEntities(m.destroyed, m.ents),
            !.children = @ \ Range(m.ents)]

\* SceneManager.destroy on the state m: every scene of the Map is destroyed,
\* the Map is cleared, the active reference is dropped (the order of the
\* destroy calls, that of the Map, is not kept).
DoDestroySceneManager(m) ==
  LET held == {m.scenes[n] : n \in SceneNames} \ {None}
  IN [m EXCEPT !.destroyed = [s \in SceneRefs |->
                                IF s \in held THEN m.destroyed[s] + 1
                                ELSE m.destroyed[s]],
               !.children = @ \ held,
               !.scenes = [n \in SceneNames |-> None],
               !.active = None]

\* Engine.destroy without the destroy of the AssetManager.
ManagerDestroysSkipsAssets(e) ==
  <<"sceneManager.destroy", "entityManager.destroy">>
    \o (IF e.hasViewport
        THEN <<"viewportManager.destroy">>
               \o (IF e.overlay THEN <<"debugOverlay.destroy">> ELSE <<>>)
               \o <<"app.destroy">>
        ELSE <<>>)

\* The calls Engine.destroy makes after the two removals, in order.
ManagerDestroys(e) ==
  <<"sceneManager.destroy", "entityManager.destroy", "assetManager.destroy">>
    \o (IF e.hasViewport
        THEN <<"viewportManager.destroy">>
               \o (IF e.overlay THEN <<"debugOverlay.destroy">> ELSE <<>>)
               \o <<"app.destroy">>
        ELSE <<>>)


\* Engine.destroy(). this.app.ticker of a rendering surface whose init has not
\* resolved is the library's affair: the removal may throw (tickerThrows).
\* this.viewportManager is undefined until init has created it, and
\* `this.viewportManager.destroy()` then throws a TypeError.
\* ViewportManager.destroy removes a new bind of its handleResize.
engineDestroy(tickerThrows) ==
  /\ engine.phase # "none"
  /\ tickerThrows => ~AppInitialized(engine)
  /\ \A n \in SceneNames :
       scenes[n] # None => scDestroyed[scenes[n]] < MaxSceneCalls
  /\ LET ls1 == RemoveEventListener(listeners, Bind("engine", "destroy"))
         ls2 == IF engine.hasViewport
                THEN RemoveEventListener(ls1, Bind("viewport", "destroy"))
                ELSE ls1
     IN IF tickerThrows
        THEN /\ egLast' = [NoEngineCall EXCEPT
                             !.op = "destroy", !.phase = engine.phase,
                             !.log = <<"removeEventListener">>,
                             !.error = "TypeError"]
             /\ listeners' = ls1
             /\ UNCHANGED <<ticker, entityVars, sceneVars, assetVars>>
        ELSE /\ ticker' = 0
             /\ SetSMState(DoDestroySceneManager(SMState))
             /\ smLast' = [smLast EXCEPT !.op = "destroy", !.hooks = <<>>]
             /\ UNCHANGED <<nextScene, scName, scPending>>
             /\ SetEMState(DoDestroyEntityManager(EMState))
             /\ entitiesToAdd' = <<>>
             /\ entitiesToRemove' = <<>>
             /\ UNCHANGED <<now, nextEntity, entId, entActive, entUpdates, emPc,
                            emRequested>>
             /\ destroyAssets
             /\ UNCHANGED raceVars
             /\ listeners' = ls2
             /\ egLast' = [NoEngineCall EXCEPT
                             !.op = "destroy", !.phase = engine.phase,
                             !.log = <<"removeEventListener", "ticker.remove">>
                                       \o ManagerDestroys(engine),
                             !.error = IF engine.hasViewport THEN ""
                                       ELSE "TypeError"]
  /\ UNCHANGED <<engine, viewportVars>>

\* deltaTime = ticker.deltaTime * 0.01
DeltaTime(raw) == Div(raw, 100)

\* The calls of one Engine.update, in order: SceneManager.update calls the
\* update of the active scene, if there is one; an update that throws ends
\* the callback.
FrameCalls(active, overlay, dt, sceneThrows) ==
  (IF active # None THEN << <<"scene.update", active, dt>> >> ELSE <<>>)
    \o (IF sceneThrows THEN <<>>
        ELSE << <<"entityManager.update", None, dt>> >>
               \o (IF overlay THEN << <<"debugOverlay.update", None, dt>> >>
                   ELSE <<>>))

\* The ticker calls Engine.update, the callback init registered. The update
\* of the active scene is game code and may throw (sceneThrows).
\* EntityManager.update flushes the queues and updates the entities.
frame(raw, sceneThrows) ==
  /\ ticker > 0
  /\ emPc = "idle"
  /\ sceneThrows => activeScene # None
  /\ egLast' = [NoEngineCall EXCEPT
                  !.op = "frame", !.phase = engine.phase,
                  !.dt = DeltaTime(raw), !.active = activeScene,
                  !.log = FrameCalls(activeScene, engine.overlay,
                                     DeltaTime(raw), sceneThrows),
                  !.error = IF sceneThrows THEN "scene.update" ELSE ""]
  /\ IF sceneThrows THEN UNCHANGED entityVars ELSE processEntityQueues
  /\ UNCHANGED <<engine, ticker, listeners>>
  /\ UNCHANGED <<sceneVars, assetVars, viewportVars>>

\* The Engine through construction, init and destroy.
NextEngine ==
  \/ \E config \in EngineConfigs :
       newEngine(config) /\ UNCHANGED <<componentVars, coordVars, lifeVars>>
  \/ engineInit /\ UNCHANGED <<componentVars, coordVars, lifeVars>>
  \/ appInitResolves /\ UNCHANGED <<componentVars, coordVars, lifeVars>>
  \/ assetManagerInitResolves /\ UNCHANGED <<componentVars, coordVars, lifeVars>>
  \/ \E tickerThrows \in BOOLEAN :
       engineDestroy(tickerThrows) /\ UNCHANGED <<componentVars, coordVars, lifeVars>>

\* The Engine with its scenes and its frames.
FrameConfigs == {c \in EngineConfigs : c.viewport = EmptyConfig}

NextFrame ==
  \/ \E config \in FrameConfigs :
       newEngine(config) /\ UNCHANGED <<componentVars, coordVars, lifeVars>>
  \/ engineInit /\ UNCHANGED <<componentVars, coordVars, lifeVars>>
  \/ appInitResolves /\ UNCHANGED <<componentVars, coordVars, lifeVars>>
  \/ assetManagerInitResolves /\ UNCHANGED <<componentVars, coordVars, lifeVars>>
  \/ \E name \in SceneNames :
       newScene(name)
         /\ UNCHANGED <<entityVars, assetVars, componentVars, viewportVars,
                        coordVars, engineVars, lifeVars>>
  \/ \E s \in SceneRefs :
       addScene(s)
         /\ UNCHANGED <<entityVars, assetVars, componentVars, viewportVars,
                        coordVars, engineVars, lifeVars>>
  \/ \E name \in SceneNames :
       switchScene(name)
         /\ UNCHANGED <<entityVars, assetVars, componentVars, viewportVars,
                        coordVars, engineVars, lifeVars>>
  \/ \E raw \in TickerDeltas, sceneThrows \in BOOLEAN :
       frame(raw, sceneThrows) /\ UNCHANGED <<componentVars, coordVars, lifeVars>>
  \/ engineDestroy(FALSE) /\ UNCHANGED <<componentVars, coordVars, lifeVars>>

\* ------------------------------------------------------ claims on the Engine

\* Number of times the call is in the log.
CountCall(log, call) == Cardinality({i \in 1..Len(log) : log[i] = call})

\* C23: every frame callback calls, in this order, the update of the active
\* scene and of no other scene, then EntityManager.update, then the update of
\* the debug overlay if there is one, all with the same delta time.
C23_FrameOrder ==
  egLast.op = "frame" =>
    egLast.log =
      (IF egLast.active # None
       THEN << <<"scene.update", egLast.active, egLast.dt>> >> ELSE <<>>)
      \o << <<"entityManager.update", None, egLast.dt>> >>
      \o (IF engine.overlay
          THEN << <<"debugOverlay.update", None, egLast.dt>> >> ELSE <<>>)

\* C24: after destroy() on an initialized engine the frame callback is off the
\* ticker and no resize listener of the engine or of its ViewportManager is
\* registered on the window.
C24_NoRegistrationLeft ==
  (egLast.op = "destroy" /\ egLast.phase = "initialized") =>
    /\ ticker = 0
    /\ listeners = <<>>

\* C25: destroy() on an initialized engine calls destroy on the SceneManager,
\* the EntityManager, the AssetManager, the ViewportManager and, if there is
\* one, the debug overlay exactly once each, and destroys the rendering
\* surface after them.
C25_DestroysEveryManagerOnce ==
  (egLast.op = "destroy" /\ egLast.phase = "initialized") =>
    /\ egLast.error = ""
    /\ \A call \in {"sceneManager.destroy", "entityManager.destroy",
                    "assetManager.destroy", "viewportManager.destroy",
                    "app.destroy"} :
         CountCall(egLast.log, call) = 1
    /\ CountCall(egLast.log, "debugOverlay.destroy")
         = (IF engine.overlay THEN 1 ELSE 0)
    /\ egLast.log[Len(egLast.log)] = "app.destroy"

C25_Witness ==
  /\ egLast.op = "destroy"
  /\ egLast.phase = "initialized"
  /\ engine.overlay
  /\ CountCall(egLast.log, "debugOverlay.destroy") = 1

\* C26: a frame in which the update of the active scene throws still runs the
\* updates that come after it, EntityManager.update among them.
C26_FailureIsConfined ==
  (egLast.op = "frame" /\ egLast.error # "") =>
    CountCall(egLast.log, <<"entityManager.update", None, egLast.dt>>) = 1

\* C27: after init the Engine's ViewportManager works with the viewport
\* options of the config the Engine was constructed with.
C27_ViewportOptionsUsed ==
  engine.phase = "initialized" =>
    LET options == engine.config.viewport
    IN /\ viewport.designWidth
            = OrDefault(options.designWidth, DefaultDesignWidth)
       /\ viewport.designHeight
            = OrDefault(options.designHeight, DefaultDesignHeight)
       /\ viewport.maintainAspectRatio = options.maintainAspectRatio
       /\ viewport.tabletThreshold
            = OrDefault(options.tabletThreshold, DefaultTabletThreshold)
       /\ viewport.desktopThreshold
            = OrDefault(options.desktopThreshold, DefaultDesktopThreshold)

\* C28: destroy() in any lifecycle state of the engine completes without
\* error and has destroyed every manager and the rendering surface.
C28_DestroyInAnyState ==
  egLast.op = "destroy" =>
    /\ egLast.error = ""
    /\ \A call \in {"sceneManager.destroy", "entityManager.destroy",
                    "assetManager.destroy", "viewportManager.destroy",
                    "app.destroy"} :
         CountCall(egLast.log, call) = 1

\* ------------------------------------------ Entity.update and Entity.destroy
NoEntityCalls ==
  [op |-> "none", host |-> None, dt |-> <<0, 1>>, ret |-> FALSE,
   calls |-> <<>>, error |-> None]

InitLife ==
  /\ compEnabled = [c \in ComponentRefs |-> TRUE]
  /\ enCalls = NoEntityCalls

\* Game code assigns Component.enabled.
setEnabled(c, b) ==
  /\ compEnabled[c] # b
  /\ compEnabled' = [compEnabled EXCEPT ![c] = b]

\* Game code assigns Entity.active of an entity it holds.
setEntityActive(h, b) ==
  /\ entActive[h] # b
  /\ entActive' = [entActive EXCEPT ![h] = b]
  /\ UNCHANGED <<now, nextEntity, entId, entDestroyed, entUpdates, entities,
                 entitiesToAdd, entitiesToRemove, emChildren, emPc, emCursor,
                 emRequested>>

\* The loop of Entity.update over this.components.values(): the update calls
\* made, in order. The update of the component `thrower` throws, which ends
\* the loop.
RECURSIVE UpdateCalls(_, _, _, _)
UpdateCalls(map, enabled, dt, thrower) ==
  IF map = <<>> THEN <<>>
  ELSE LET c == Head(map)[2]
       IN IF ~enabled[c] THEN UpdateCalls(Tail(map), enabled, dt, thrower)
          ELSE IF c = thrower THEN << <<"update", c, dt>> >>
          ELSE << <<"update", c, dt>> >>
                 \o UpdateCalls(Tail(map), enabled, dt, thrower)

\* Entity.update(deltaTime)
EntityUpdate(active, map, enabled, dt, thrower) ==
  IF ~active THEN <<>> ELSE UpdateCalls(map, enabled, dt, thrower)

\* entity.update(dt). The update of a component is game code and may throw:
\* thrower is the attached, enabled component whose update does.
entityUpdate(h, dt, thrower) ==
  /\ thrower # None =>
       /\ entActive[h]
       /\ compEnabled[thrower]
       /\ \E i \in 1..Len(components[h]) : components[h][i][2] = thrower
  /\ enCalls' = [NoEntityCalls EXCEPT
                   !.op = "update", !.host = h, !.dt = dt,
                   !.calls = EntityUpdate(entActive[h], components[h],
                                          compEnabled, dt, thrower),
                   !.error = thrower]
  /\ UNCHANGED <<compEnabled, entityVars, componentVars>>

\* Entities with their components, their flags and their update.
NextUpdate ==
  \/ \E h \in Hosts, c \in ComponentRefs, key \in TypeKeys :
       addComponent(h, c, key) /\ enCalls' = NoEntityCalls
         /\ UNCHANGED <<compEnabled, entityVars, sceneVars, assetVars,
                        viewportVars, coordVars, engineVars>>
  \/ \E c \in ComponentRefs, b \in BOOLEAN :
       setEnabled(c, b) /\ enCalls' = NoEntityCalls
         /\ UNCHANGED <<entityVars, sceneVars, assetVars, componentVars,
                        viewportVars, coordVars, engineVars>>
  \/ \E h \in Hosts, b \in BOOLEAN :
       setEntityActive(h, b) /\ enCalls' = NoEntityCalls
         /\ UNCHANGED <<compEnabled, sceneVars, assetVars, componentVars,
                        viewportVars, coordVars, engineVars>>
  \/ \E h \in Hosts, raw \in TickerDeltas, thrower \in ComponentRefs \cup {None} :
       entityUpdate(h, DeltaTime(raw), thrower)
         /\ UNCHANGED <<sceneVars, assetVars, viewportVars, coordVars,
                        engineVars>>

\* The components of the entity instance e (instances other than the hosts
\* are given none).
ComponentsOf(comps, e) == IF e \in Hosts THEN comps[e] ELSE <<>>

\* Entity.destroy without the destroy of the components.
DestroyCallsContainerOnly(map, e) ==
  << <<"container.destroy", e>> >>

\* Entity.destroy(): destroy on every entry of the component Map, in order,
\* then on the container.
DestroyCalls(map, e) ==
  [i \in 1..Len(map) |-> <<"destroy", map[i][2]>>]
    \o << <<"container.destroy", e>> >>

\* Entity.destroy() deletes every entry of the Map of the entities that an
\* EntityManager call destroys.
DestroyedEntitiesLoseComponents ==
  components' = [h \in Hosts |->
                   IF entDestroyed'[h] > entDestroyed[h] THEN <<>>
                   ELSE components[h]]

\* entityManager.createEntity(name), added at once, for the instances that
\* are hosts; an entity that was tracked under the same id is removed and
\* destroyed. (The records of the last Entity call and of the removals asked
\* for are not kept here.)
createEntityNow(r) ==
  /\ nextEntity \in Hosts
  /\ createEntity(r, TRUE)
  /\ DestroyedEntitiesLoseComponents
  /\ enCalls' = NoEntityCalls
  /\ UNCHANGED <<compEntity, enLast, compEnabled>>

\* entity.addComponent on an entity the manager tracks.
addComponentToTracked(h, c, key) ==
  /\ h \in Range(entities)
  /\ SetENState(DoAddComponent(ENState, h, c, key))
  /\ enCalls' = NoEntityCalls
  /\ UNCHANGED <<enLast, compEnabled, entityVars>>

\* entityManager.removeEntity(id) with the Entity.destroy() it calls.
removeEntityNow(id) ==
  /\ SetEMState(DoRemoveEntity(entId, EMState, id))
  /\ DestroyedEntitiesLoseComponents
  /\ enCalls' =
       IF EntitiesHas(entId, entities, id)
       THEN LET e == entities[EntitiesPos(entId, entities, id)]
            IN [NoEntityCalls EXCEPT
                  !.op = "removeEntity", !.host = e, !.ret = TRUE,
                  !.calls = << <<"removeChild", e>> >>
                              \o DestroyCalls(ComponentsOf(components, e), e)]
       ELSE [NoEntityCalls EXCEPT !.op = "removeEntity"]
  /\ UNCHANGED <<now, nextEntity, entId, entActive, entUpdates, entitiesToAdd,
                 entitiesToRemove, emPc, emRequested>>
  /\ UNCHANGED <<compEntity, enLast, compEnabled>>

\* Entities of an EntityManager with their components.
NextRemove ==
  \/ \E r \in 0..(MaxRandom - 1) :
       createEntityNow(r)
         /\ UNCHANGED <<sceneVars, assetVars, viewportVars, coordVars,
                        engineVars>>
  \/ \E h \in Hosts, c \in ComponentRefs, key \in TypeKeys :
       addComponentToTracked(h, c, key)
         /\ UNCHANGED <<sceneVars, assetVars, viewportVars, coordVars,
                        engineVars>>
  \/ \E id \in IdSpace :
       removeEntityNow(id)
         /\ UNCHANGED <<sceneVars, assetVars, viewportVars, coordVars,
                        engineVars>>

\* ------------------------------- claims on Entity.update and Entity.destroy

\* C29: Entity.update(dt) calls no component when the entity is inactive;
\* otherwise it calls update(dt) once for every attachment of an enabled
\* component and for no disabled one, in the order of attachment.
C29_EntityUpdate ==
  enCalls.op = "update" =>
    LET map == components[enCalls.host]
        due == SelectSeq(map, LAMBDA entry : compEnabled[entry[2]])
    IN enCalls.calls =
         IF entActive[enCalls.host]
         THEN [i \in 1..Len(due) |-> <<"update", due[i][2], enCalls.dt>>]
         ELSE <<>>

addEntity(e) ==
  /\ e < nextEntity
  /\ entDestroyed[e] < MaxDestroys
  /\ SetEMState(DoAddEntity(entId, EMState, e))
  /\ enCalls' = [NoEntityCalls EXCEPT
                   !.op = "addEntity", !.host = e,
                   !.ret = EntitiesHas(entId, entities, entId[e])]
  /\ UNCHANGED <<now, nextEntity, entId, entActive, entUpdates, entitiesToAdd,
                 entitiesToRemove, emPc, emRequested>>

\* The EntityManager with addEntity called by the game.
NextAdd ==
  \/ \E r \in 0..(MaxRandom - 1) :
       createEntity(r, TRUE) /\ enCalls' = NoEntityCalls
         /\ UNCHANGED <<compEnabled, sceneVars, assetVars, componentVars,
                        viewportVars, coordVars, engineVars>>
  \/ \E e \in EntityRefs :
       addEntity(e)
         /\ UNCHANGED <<compEnabled, sceneVars, assetVars, componentVars,
                        viewportVars, coordVars, engineVars>>
  \/ \E id \in IdSpace :
       removeEntityNow(id)
         /\ UNCHANGED <<sceneVars, assetVars, viewportVars, coordVars,
                        engineVars>>

\* The EntityManager with addEntity called by the game, deferred adds and
\* removals, and the flush of the queues that update() starts with.
NextLive ==
  \/ \E r \in 0..(MaxRandom - 1), imm \in BOOLEAN :
       createEntity(r, imm) /\ enCalls' = NoEntityCalls
         /\ UNCHANGED <<compEnabled, sceneVars, assetVars, componentVars,
                        viewportVars, coordVars, engineVars>>
  \/ \E e \in EntityRefs :
       addEntity(e)
         /\ UNCHANGED <<compEnabled, sceneVars, assetVars, componentVars,
                        viewportVars, coordVars, engineVars>>
  \/ \E id \in IdSpace :
       scheduleEntityRemoval(id) /\ enCalls' = NoEntityCalls
         /\ UNCHANGED <<compEnabled, sceneVars, assetVars, componentVars,
                        viewportVars, coordVars, engineVars>>
  \/ \E id \in IdSpace :
       removeEntityNow(id)
         /\ UNCHANGED <<sceneVars, assetVars, viewportVars, coordVars,
                        engineVars>>
  \/ processEntityQueues /\ enCalls' = NoEntityCalls
       /\ UNCHANGED <<compEnabled, sceneVars, assetVars, componentVars,
                      viewportVars, coordVars, engineVars>>

\* ------------------------------------------------------- claims on addEntity

\* C31: addEntity(entity) with a tracked id destroys the entity tracked under
\* it exactly once and tracks the given entity under the id, its container a
\* child of the manager's container; with a new id it inserts the entity and
\* attaches its container; the other tracked entities stay as they are.
C31_AddEntity ==
  [][\A e \in EntityRefs :
       addEntity(e) =>
         LET id == entId[e]
             now1 == {i \in 1..Len(entities') : entId[entities'[i]] = id}
         IN /\ Cardinality(now1) = 1
            /\ \A i \in now1 : entities'[i] = e
            /\ e \in emChildren'
            /\ IF EntitiesHas(entId, entities, id)
               THEN LET old == entities[EntitiesPos(entId, entities, id)]
                    IN /\ entDestroyed'[old] = entDestroyed[old] + 1
                       /\ \A x \in EntityRefs \ {old} :
                            entDestroyed'[x] = entDestroyed[x]
                       /\ \A x \in Range(entities) \ {old} :
                            /\ x \in Range(entities')
                            /\ x \in emChildren' <=> x \in emChildren
               ELSE /\ entities' = Append(entities, e)
                    /\ emChildren' = emChildren \cup {e}
                    /\ entDestroyed' = entDestroyed]_vars

C31_Witness ==
  /\ enCalls.op = "addEntity"
  /\ enCalls.ret
  /\ Len(entities) = 2
  /\ \E x \in EntityRefs \ {enCalls.host} :
       /\ entId[x] = entId[enCalls.host]
       /\ entDestroyed[x] = 1
       /\ x \notin Range(entities)

\* C33: no entity the manager tracks has had destroy() called on it.
C33_TrackedAreLive ==
  \A e \in Range(entities) : entDestroyed[e] = 0

\* ------------------------------------------------------ window resize events
\* The window sizes of the resize events.
WindowSizes == {<<375, 375>>, <<375, 768>>, <<768, 1024>>, <<1920, 1080>>}

\* The elements of a set of instances as a sequence (the order of a Map's
\* values is not kept: this one is by instance number).
RECURSIVE SetToSeq(_)
SetToSeq(S) ==
  IF S = {} THEN <<>>
  ELSE LET s == CHOOSE x \in S : \A y \in S : x <= y
       IN <<s>> \o SetToSeq(S \ {s})

\* SceneManager.resize(width, height): resize on every scene of the Map.
SceneResizeCalls(held, width, height) ==
  [i \in 1..Cardinality(held) |->
     <<"scene.resize", SetToSeq(held)[i], width, height>>]

\* Engine.handleResize with the scenes resized before the ViewportManager.
HandleResizeCallsScenesFirst(held, overlay, width, height) ==
  SceneResizeCalls(held, width, height)
    \o << <<"viewportManager.resize", None, width, height>> >>
    \o (IF overlay THEN << <<"debugOverlay.resize", None, 0, 0>> >> ELSE <<>>)
    \o << <<"engine.resize", None, 0, 0>> >>

\* The calls Engine.handleResize makes, in order, in a window of the given
\* size with the scenes `held` registered.
HandleResizeCalls(held, overlay, width, height) ==
  << <<"viewportManager.resize", None, width, height>> >>
    \o SceneResizeCalls(held, width, height)
    \o (IF overlay THEN << <<"debugOverlay.resize", None, 0, 0>> >> ELSE <<>>)
    \o << <<"engine.resize", None, 0, 0>> >>

\* The 'resize' listeners ls run in order in the window w: that of the
\* ViewportManager is its handleResize, that of the Engine is
\* Engine.handleResize. d collects the viewport, the made made and the
\* notifications raised.
RECURSIVE Dispatch(_, _, _, _, _)
Dispatch(ls, d, w, held, overlay) ==
  IF ls = <<>> THEN d
  ELSE LET r == DoResize(d.viewport, w, w.innerWidth, w.innerHeight)
           made == IF Head(ls)[1] = "engine"
                    THEN HandleResizeCalls(held, overlay, w.innerWidth,
                                           w.innerHeight)
                    ELSE << <<"viewportManager.resize", None, w.innerWidth,
                              w.innerHeight>> >>
       IN Dispatch(Tail(ls),
                   [viewport |-> r.viewport, log |-> d.log \o made,
                    raised |-> d.raised \o r.raised],
                   w, held, overlay)

\* The window is resized to width x height and dispatches a 'resize' event to
\* its listeners.
resizeEvent(width, height) ==
  /\ <<width, height>> # <<window.innerWidth, window.innerHeight>>
  /\ window' = [innerWidth |-> width, innerHeight |-> height]
  /\ LET held == {scenes[n] : n \in SceneNames} \ {None}
         d == Dispatch(listeners,
                       [viewport |-> viewport, log |-> <<>>, raised |-> <<>>],
                       window', held, engine.overlay)
     IN /\ viewport' = d.viewport
        /\ vmLast' = IF listeners = <<>> THEN vmLast
                     ELSE [op |-> "resize", width |-> width, height |-> height,
                           orientation |-> viewport.orientation,
                           deviceType |-> viewport.deviceType,
                           raised |-> d.raised]
        /\ egLast' = [NoEngineCall EXCEPT
                        !.op = "resize", !.phase = engine.phase,
                        !.size = <<width, height>>, !.before = viewport,
                        !.held = held, !.raised = d.raised, !.log = d.log]
  /\ UNCHANGED <<engine, ticker, listeners>>
  /\ UNCHANGED <<entityVars, sceneVars, assetVars>>

\* sceneManager.addScene(scene) with a scene that was not added before.
addNewScene(s) ==
  /\ scInit[s] = 0
  /\ addScene(s)

\* The Engine with its scenes in a window that is resized.
NextResize ==
  \/ \E config \in FrameConfigs :
       newEngine(config) /\ UNCHANGED <<componentVars, coordVars, lifeVars>>
  \/ engineInit /\ UNCHANGED <<componentVars, coordVars, lifeVars>>
  \/ appInitResolves /\ UNCHANGED <<componentVars, coordVars, lifeVars>>
  \/ assetManagerInitResolves /\ UNCHANGED <<componentVars, coordVars, lifeVars>>
  \/ \E name \in SceneNames :
       newScene(name)
         /\ egLast' = NoEngineCall
         /\ UNCHANGED <<engine, ticker, listeners>>
         /\ UNCHANGED <<entityVars, assetVars, componentVars, viewportVars,
                        coordVars, lifeVars>>
  \/ \E s \in SceneRefs :
       addNewScene(s)
         /\ egLast' = NoEngineCall
         /\ UNCHANGED <<engine, ticker, listeners>>
         /\ UNCHANGED <<entityVars, assetVars, componentVars, viewportVars,
                        coordVars, lifeVars>>
  \/ \E name \in SceneNames :
       switchScene(name)
         /\ egLast' = NoEngineCall
         /\ UNCHANGED <<engine, ticker, listeners>>
         /\ UNCHANGED <<entityVars, assetVars, componentVars, viewportVars,
                        coordVars, lifeVars>>
  \/ \E size \in WindowSizes :
       resizeEvent(size[1], size[2])
         /\ UNCHANGED <<componentVars, coordVars, lifeVars>>

\* ---------------------------------------------- claims on the resize events

\* Positions of the calls of one kind in a call log.
CallsOf(log, kind) == {i \in 1..Len(log) : log[i][1] = kind}

\* C32: on a resize event of an initialized engine's window every registered
\* scene, active or not, gets resize(width, height) once, after the
\* ViewportManager was recomputed, and the orientation, the device type and
\* the scale factors it and later frames find are those of the new size.
C32_ViewportBeforeScenes ==
  (egLast.op = "resize" /\ egLast.phase = "initialized") =>
    LET log == egLast.log
        width == egLast.size[1]
        height == egLast.size[2]
    IN /\ \A s \in egLast.held :
            Cardinality({i \in CallsOf(log, "scene.resize") :
                           log[i] = <<"scene.resize", s, width, height>>}) = 1
       /\ Cardinality(CallsOf(log, "scene.resize")) = Cardinality(egLast.held)
       /\ CallsOf(log, "viewportManager.resize") # {}
       /\ \A i \in CallsOf(log, "viewportManager.resize"),
             j \in CallsOf(log, "scene.resize") : i < j
       /\ viewport.width = width /\ viewport.height = height
       /\ viewport.orientation
            = (IF width >= height THEN "landscape" ELSE "portrait")
       /\ viewport.deviceType
            = DeviceTypeFor(width, height, viewport.tabletThreshold,
                            viewport.desktopThreshold)
       /\ RatEq(viewport.scaleX, Div(width, viewport.designWidth))
       /\ RatEq(viewport.scaleY, Div(height, viewport.designHeight))
       /\ RatEq(viewport.scale,
                IF viewport.maintainAspectRatio
                THEN RatMin(viewport.scaleX, viewport.scaleY) ELSE <<1, 1>>)

C32_Witness ==
  /\ egLast.op = "resize"
  /\ egLast.phase = "initialized"
  /\ Cardinality(egLast.held) = 2
  /\ activeScene \in egLast.held
  /\ viewport.orientation = "portrait"

\* C40: one resize event of an initialized engine's window runs
\* ViewportManager.resize twice, delivers onOrientationChange and
\* onDeviceTypeChange at most once each, and leaves the viewport as one
\* resize call with the new size leaves it.
C40_OneNotificationPerEvent ==
  (egLast.op = "resize" /\ egLast.phase = "initialized") =>
    LET once == DoResize(egLast.before, window, egLast.size[1], egLast.size[2])
    IN /\ Cardinality(CallsOf(egLast.log, "viewportManager.resize")) = 2
       /\ Raised(egLast.raised, "onOrientationChange") <= 1
       /\ Raised(egLast.raised, "onDeviceTypeChange") <= 1
       /\ egLast.raised = once.raised
       /\ viewport = once.viewport

C40_Witness ==
  /\ egLast.op = "resize"
  /\ egLast.phase = "initialized"
  /\ Raised(egLast.raised, "onOrientationChange") = 1
  /\ Raised(egLast.raised, "onDeviceTypeChange") = 1

\* ============================================================== specifications
Init ==
  InitEntity /\ InitScene /\ InitAsset /\ InitComponent /\ InitViewport
    /\ InitCoords /\ InitEngine /\ InitLife

SpecEntity == Init /\ [][NextEntity]_vars

SpecScene == Init /\ [][NextScene]_vars

SpecAsset == Init /\ [][NextAsset]_vars

SpecComponent == Init /\ [][NextComponent]_vars

SpecViewport == Init /\ [][NextViewport]_vars

SpecCoords == Init /\ [][NextCoords]_vars

SpecEngine == Init /\ [][NextEngine]_vars

SpecFrame == Init /\ [][NextFrame]_vars

SpecUpdate == Init /\ [][NextUpdate]_vars

SpecRemove == Init /\ [][NextRemove]_vars

SpecAdd == Init /\ [][NextAdd]_vars

SpecLive == Init /\ [][NextLive]_vars

SpecResize == Init /\ [][NextResize]_vars

SpecAssetRace == Init /\ [][NextAssetRace]_vars

SpecSceneInit == Init /\ [][NextSceneInit]_vars
====
